---- MODULE Spec2Model ----
(***************************************************************************)
(* Crawl execution engine of flask_web_scraper, for one scoped domain.     *)
(*                                                                         *)
(* Processes:                                                              *)
(*   - the front-end handler index() (app.py), which resets the progress   *)
(*     store and starts a run_crawl_task thread;                           *)
(*   - run_crawl_task threads (app.py), one per launch, the supervisors;   *)
(*   - one spider subprocess per supervisor (spider.py, pipelines.py).     *)
(* Shared state: the Redis progress keys of the domain                     *)
(* (progress_tracker.py), the crawl_statistics row of the domain           *)
(* (operations.py), and the registry active_crawls (app.py).               *)
(*                                                                         *)
(* Scrapy itself is not part of the repository.  What the model takes from *)
(* it: callbacks of one spider run one at a time; a Request is dropped     *)
(* when its depth exceeds DEPTH_LIMIT; after CLOSESPIDER_PAGECOUNT         *)
(* responses nothing more is downloaded and the downloads in flight        *)
(* drain; on close the pipeline's close_spider runs before the             *)
(* spider_closed signal; open_spider runs before spider_opened; the        *)
(* generator a callback returns is resumed yield by yield, the generators  *)
(* of several responses in any order; a response with a status in          *)
(* RETRY_HTTP_CODES is retried RETRY_TIMES times without any callback, and *)
(* then passed on; a status outside handle_httpstatus_list goes to the     *)
(* errback.  The log of the subprocess goes to its output stream; the      *)
(* model keeps the lines with a marker the supervisor looks for.           *)
(***************************************************************************)
EXTENDS Integers, Sequences, FiniteSets, TLC

VARIABLES
    site,             \* the site crawled, by name
    pc,               \* run_crawl_task: position of each supervisor thread
    proc,             \* subprocess of each supervisor: none/running/closing/exited
    returncode,       \* Popen.returncode, meaningful once proc = "exited"
    exit_path,        \* the branch of run_crawl_task that wrote the final status
    active_crawls,    \* the registry entry of the domain: "none" or its owner
    redis_progress,   \* key progress:<domain>, in units of 1/Scale; -1 = absent
    redis_total,      \* key total:<domain>; -1 = absent
    db_status,        \* crawl_statistics.status of the domain; "none" = no row
    endWrites,        \* per run: update_crawl_statistics calls carrying end_time
    sp_pc,            \* position of each spider process
    pages_crawled, pages_failed,
    urls_seen, urls_crawled,
    queue,            \* Requests held by the scheduler
    inflight,         \* Requests being downloaded
    responses,        \* responses received (the CloseSpider page count)
    reqCount,         \* per run: Requests yielded so far, per fingerprint
    sup_status,       \* per run: the status run_crawl_task wrote last
    error_logs,       \* per run: ERROR entries run_crawl_task appended to crawl_logs
    resets,           \* per run: calls of ProgressTracker.reset()
    stdout,           \* per run: lines the subprocess wrote, not yet read
    output_lines,     \* run_crawl_task: the lines read so far
    assets_uploaded,
    pool,             \* the ThreadPoolExecutor of upload_assets_concurrent
    results_returned, \* per run: results returned by download_and_upload
    items,            \* per run: items handed to the pipeline
    gens,             \* parse() generators suspended after a yield
    fetches,          \* per run: final outcomes the downloader delivered
    hashed,           \* two URLs and their dedup keys
    downloaded,       \* an asset response and what download_and_upload returned
    extracted,        \* the hrefs of a page and what _extract_links yielded
    assets_found,     \* the sources of a page and what _extract_assets returned
    relaunched,       \* the stores a finished run left and what the next launch makes of them
    piped,            \* an item, the outcomes of the database calls and what process_item did
    written,          \* a database, a write and the database after the write was applied
    frontier,         \* urls_seen and the scheduler of a spider, and the link discovered last
    parsed,           \* a response, the counters of the spider and what parse or errback made of them
    pooled,           \* the connections checked out of the pool, and the last method of DatabaseOperations called
    celery,           \* a crawl_info, what the environment of crawl_task does, and what crawl_task returned
    uploading,        \* a list of assets, the futures not yet completed and what upload_assets_concurrent has collected
    percent           \* the progress keys of a domain and what get_percentage returned for them

vars == << site, pc, proc, returncode, exit_path, active_crawls,
           redis_progress, redis_total, db_status, endWrites, sp_pc,
           pages_crawled, pages_failed, urls_seen, urls_crawled, queue,
           inflight, responses, reqCount, sup_status, error_logs, resets,
           stdout, output_lines, assets_uploaded, pool, results_returned,
           items, gens, fetches, hashed, downloaded, extracted,
           assets_found,
           relaunched,
           piped,
           written,
           frontier,
           parsed,
           pooled,
           celery,
           uploading,
           percent >>

logVars    == << sup_status, error_logs, resets, output_lines >>
supVars    == << pc, exit_path, active_crawls, logVars >>
assetVars  == << assets_uploaded, pool, results_returned >>
crawlVars  == << pages_crawled, pages_failed, urls_seen, urls_crawled,
                 queue, inflight, responses, reqCount, assetVars, items, gens,
                 fetches >>
spiderVars == << sp_pc, crawlVars >>
redisVars  == << redis_progress, redis_total >>
procVars   == << proc, returncode >>
\* The variables of the functions applied on their own
pureVars   == << hashed, downloaded, extracted, assets_found, relaunched, piped, written, frontier, parsed, pooled, celery, uploading, percent >>
\* The variables of the runs
runVars    == << site, stdout, supVars, procVars, redisVars, db_status,
                 endWrites, spiderVars >>

-----------------------------------------------------------------------------
(* Bounds and program constants *)

\* The page-count ceiling C of a run.  The source sets
\* CLOSESPIDER_PAGECOUNT = 100 (spider.py:182); the model runs the same code
\* with a small ceiling so that the ceiling is reached.
PageCeiling == 2

DEPTH_LIMIT == 3
RETRY_TIMES == 2
max_links == 30
max_workers == 5
CONCURRENT_REQUESTS_PER_DOMAIN == 8
DefaultTotal == 100
FullProgress == 100

Tasks == {"t1", "t2"}

Min(a, b) == IF a <= b THEN a ELSE b
Max(a, b) == IF a >= b THEN a ELSE b

-----------------------------------------------------------------------------
(* The site *)

domain == "self"

\* A URL: scheme, host, path with its file extension, query and fragment
Url(scheme, host, path, ext, query, frag) ==
    [scheme |-> scheme, host |-> host, path |-> path, ext |-> ext,
     query |-> query, frag |-> frag]

\* An https URL without a query
Href(h, p, f, e) == Url("https", h, p, e, "", f)

start_url == Href(domain, 0, "", "")

\* A seed page without any crawlable link: a cross-domain link, a
\* subdomain link and a link to a binary file.
WebLeaf == [p \in 0..3 |->
    IF p = 0 THEN << Href("other", 1, "", ""), Href("sub.self", 1, "", ""),
                     Href("self", 1, "", ".pdf") >>
    ELSE << >>]

\* A seed page linking to one page and (with a fragment) to itself; the page
\* links back to the seed.
WebLoop == [p \in 0..3 |->
    IF p = 0 THEN << Href("self", 1, "", ""), Href("self", 0, "top", ""),
                     Href("other", 2, "", "") >>
    ELSE IF p = 1 THEN << Href("self", 0, "", ""), Href("self", 1, "a", "") >>
    ELSE << >>]

\* A seed page with three distinct same-domain links, one of them twice
\* (with and without fragment).
WebWide == [p \in 0..3 |->
    IF p = 0 THEN << Href("self", 1, "", ""), Href("self", 2, "", ""),
                     Href("self", 1, "x", ""), Href("self", 3, "", "") >>
    ELSE IF p = 1 THEN << Href("self", 2, "", ""), Href("self", 0, "", "") >>
    ELSE << >>]

\* The hrefs of the page at a path of the site, in document order
links == IF site = "leaf" THEN WebLeaf ELSE IF site = "loop" THEN WebLoop ELSE WebWide

\* What the server of an asset answers: the status, the content-length
\* header in MB (-1: the response has none), the size of the body in MB, and
\* what goes wrong: the download times out ("timeout"), the upload raises
\* ("upload") or nothing ("none")
Asset(status, content_length, size, fault) ==
    [status |-> status, content_length |-> content_length, size |-> size,
     fault |-> fault]

AssetOk        == Asset(200, 1, 1, "none")
AssetNon200    == Asset(404, 1, 1, "none")
AssetOversize  == Asset(200, 11, 11, "none")
AssetException == Asset(200, 1, 1, "upload")
AssetTimeout   == Asset(200, 1, 1, "timeout")

\* The assets of the page at a path, after _extract_assets
page_assets == [p \in 0..3 |->
    IF site = "leaf" THEN (IF p = 0 THEN << AssetOk >> ELSE << >>)
    ELSE IF site = "loop"
         THEN (IF p = 1 THEN << AssetNon200, AssetException >> ELSE << >>)
    ELSE (IF p = 0 THEN << AssetOk, AssetNon200, AssetOversize, AssetException,
                           AssetTimeout, AssetOk >>
          ELSE IF p = 1 THEN << AssetTimeout >> ELSE << >>)]

\* The number of fetches of a path the server answers with status 503
\* before it gives its answer
transient == [p \in 0..3 |->
    IF site = "leaf" THEN (IF p = 0 THEN 1 ELSE 0)
    ELSE IF site = "loop" THEN (IF p = 1 THEN 2 ELSE 0)
    ELSE (IF p = 3 THEN 3 ELSE 0)]

-----------------------------------------------------------------------------
(* progress_tracker.py.  A stored float v is held as the integer v * Scale, *)
(* Scale being the denominator of the per-page increment.                   *)

Scale == Max(PageCeiling, 1)

\* progress_increment = 100.0 / max(CLOSESPIDER_PAGECOUNT, 1), times Scale
progress_increment == FullProgress

get_total(total) == IF total = -1 THEN DefaultTotal ELSE total

get_progress(progress) == IF progress = -1 THEN 0 ELSE progress

\* A quotient cut off after its second decimal
TruncateHundredths(a, b) == (a * 100) \div b

\* round(x, 2) of a / b, in hundredths
RoundHundredths(a, b) == (2 * a * 100 + b) \div (2 * b)

\* self.redis.get(key) in the try blocks of get_total and get_progress: an
\* exception of the client is caught and the default returned, as for a key
\* that does not exist
redis_get(value, reachable) == IF reachable THEN value ELSE -1

\* get_percentage(), in hundredths of a percent
get_percentage(progress, total) ==
    IF get_total(total) = 0 THEN 0
    ELSE Min(RoundHundredths(get_progress(progress) * 100,
                             get_total(total) * Scale), 100 * 100)

Percentage == get_percentage(redis_progress, redis_total)

\* ProgressTracker.__init__: create the keys that do not exist
TrackerInitProgress(progress) == IF progress = -1 THEN 0 ELSE progress
TrackerInitTotal(total) == IF total = -1 THEN DefaultTotal ELSE total

\* increment_progress: INCRBYFLOAT creates an absent key at 0
increment_progress(progress, amount) == get_progress(progress) + amount

-----------------------------------------------------------------------------
(* spider.py: link extraction *)

\* urldefrag(urljoin(response.url, link))[0]
urldefrag(link) == [link EXCEPT !.frag = ""]

\* hashlib.md5(url.encode()).hexdigest(): one digest per URL string
md5(url) ==
    << "md5", url.scheme, url.host, url.path, url.ext, url.query, url.frag >>

skip_ext == {".pdf", ".jpg", ".jpeg", ".png", ".gif", ".zip", ".mp4", ".mp3"}

\* link.startswith(('#', 'javascript:', 'mailto:')): hrefs left out before
\* they are resolved
Skipped(link) == link.scheme \in {"javascript", "mailto"}

\* The last characters of a query string, where they are those of a file
\* extension
QueryEnding(query) == IF query = "f=a.pdf" THEN ".pdf" ELSE ""

\* absolute_url.lower().endswith(suffixes): the URL string ends with its
\* query when it has one, and with its path otherwise
EndsWith(absolute_url, suffixes) ==
    IF absolute_url.query = "" THEN absolute_url.ext \in suffixes
    ELSE QueryEnding(absolute_url.query) \in suffixes

\* A test that lets every host through
AnyHost(netloc) == TRUE

\* parsed.netloc != self.domain: continue
SameDomain(netloc) == netloc = domain

\* The filters and the seen-set test of _extract_links for one link
LinkAccepted(absolute_url, seen) ==
    /\ SameDomain(absolute_url.host)
    /\ ~EndsWith(absolute_url, skip_ext)
    /\ md5(absolute_url) \notin seen

\* A seen set that is not told of the link
MarkedNever(seen, absolute_url) == seen

\* self.urls_seen.add(url_hash)
Marked(seen, absolute_url) == seen \cup {md5(absolute_url)}

\* The loop of _extract_links from the href at idx up to its next yield:
\* the link yielded, if there is one, and its index
RECURSIVE NextLink(_, _, _, _)
NextLink(hrefs, idx, seen, followed) ==
    IF idx > Len(hrefs) \/ followed >= max_links
    THEN [found |-> FALSE, idx |-> idx, url |-> start_url]
    ELSE LET absolute_url == urldefrag(hrefs[idx])
         IN  IF ~Skipped(hrefs[idx]) /\ LinkAccepted(absolute_url, seen)
             THEN [found |-> TRUE, idx |-> idx, url |-> absolute_url]
             ELSE NextLink(hrefs, idx + 1, seen, followed)

\* _extract_links(response), a generator, resumed at the href idx
_extract_links(page, idx, seen, followed) ==
    NextLink(links[page], idx, seen, followed)

\* Links unseen before, but never followed
ExtractedNone(gen, seen) == [found |-> FALSE, idx |-> gen.idx, url |-> start_url]

\* for request in self._extract_links(response): the generator of a page
\* resumed
Extracted(gen, seen) == _extract_links(gen.page, gen.idx, seen, gen.followed)

Range(s) == {s[i] : i \in DOMAIN s}

\* Request(absolute_url, callback=self.parse, errback=self.errback)
Request(url, depth) == [url |-> url, depth |-> depth, retry_times |-> 0]

\* Scrapy's DepthMiddleware: a Request deeper than DEPTH_LIMIT is dropped
Scheduled(urls, depth) ==
    IF depth > DEPTH_LIMIT THEN {}
    ELSE {Request(u, depth) : u \in Range(urls)}

\* The Requests yielded so far, per fingerprint, after one more of url
Yielded(counts, url) ==
    IF md5(url) \in DOMAIN counts
    THEN [counts EXCEPT ![md5(url)] = @ + 1]
    ELSE counts @@ (md5(url) :> 1)

RECURSIVE Count(_, _)
Count(counts, urls) ==
    IF urls = << >> THEN counts ELSE Count(Yielded(counts, Head(urls)), Tail(urls))

Closing(t) == responses[t] >= PageCeiling

-----------------------------------------------------------------------------
(* spider.py: AssetUploader *)

CLOUDINARY_ENABLED == TRUE

None == << >>

\* 10 * 1024 * 1024 bytes, in MB
MaxContentLength == 10

\* download_and_upload(asset_url, asset_type): None when the download
\* fails, answers another status than 200 or declares a content-length over
\* the limit, and when the upload raises; the body is read whole
download_and_upload(asset) ==
    IF ~CLOUDINARY_ENABLED THEN None
    ELSE IF asset.fault = "timeout" THEN None
    ELSE IF asset.status # 200 THEN None
    ELSE IF asset.content_length # -1 /\ asset.content_length > MaxContentLength
         THEN None
    ELSE IF asset.fault = "upload" THEN None
    ELSE << "secure_url", asset.size >>

\* upload_assets_concurrent(assets_list): every asset is returned, with the
\* cloud_url of its result if it has one
upload_assets_concurrent(assets_list) ==
    [i \in DOMAIN assets_list |->
        LET result == download_and_upload(assets_list[i])
        IN  [url |-> i, cloud_url |-> IF result # None THEN result[1] ELSE "None"]]

\* A count of every asset of the page
UploadedAll(uploaded_assets) == Len(uploaded_assets)

\* sum(1 for a in uploaded_assets if a.get('cloud_url'))
Uploaded(uploaded_assets) ==
    Cardinality({i \in DOMAIN uploaded_assets : uploaded_assets[i].cloud_url # "None"})

\* A pool that starts every task submitted at once
PoolUnbounded(running) == TRUE

\* ThreadPoolExecutor(max_workers=self.max_workers): a worker is free
PoolFree(running) == Cardinality(running) < max_workers

NoPool == [active |-> FALSE, page |-> 0, depth |-> 0, next |-> 1, running |-> {}]

\* The assets of the batch whose download_and_upload returned
Finished(p) == (1..(p.next - 1)) \ p.running

-----------------------------------------------------------------------------
(* spider.py: _extract_assets *)

MaxImagesPerPage == 10
MaxScriptsPerPage == 8
MaxStylesheetsPerPage == 8

\* A slice that keeps the whole list
TakeAll(s, n) == s

\* s[:n]
Take(s, n) == SubSeq(s, 1, Min(Len(s), n))

\* A src or href attribute: the resource it names and how it is written
\* ("absolute", "relative", a "data:" URI, or "" for an empty attribute)
Src(name, form) == [name |-> name, form |-> form]

\* urljoin(base_url, src): the absolute URL of the resource
urljoin(src) == << "https", domain, src.name >>

\* if img_url and not img_url.startswith('data:')
IsFile(src) == src.form \notin {"", "data:"}

\* if css_url
NonEmpty(src) == src.form # ""

\* assets.append({'type': ..., 'url': urljoin(base_url, ...)}) in a loop
\* over the sources
RECURSIVE Collected(_, _, _)
Collected(srcs, type, empty_only) ==
    IF srcs = << >> THEN << >>
    ELSE (IF (IF empty_only THEN NonEmpty(Head(srcs)) ELSE IsFile(Head(srcs)))
          THEN << [type |-> type, url |-> urljoin(Head(srcs))] >>
          ELSE << >>) \o Collected(Tail(srcs), type, empty_only)

\* The "Deduplicate" loop: the first asset of every URL, in order
RECURSIVE Deduplicate(_, _)
Deduplicate(assets, seen) ==
    IF assets = << >> THEN << >>
    ELSE IF Head(assets).url \in seen THEN Deduplicate(Tail(assets), seen)
    ELSE << Head(assets) >>
         \o Deduplicate(Tail(assets), seen \cup {Head(assets).url})

\* _extract_assets(response), from the attributes the three selectors find
_extract_assets(images, scripts, stylesheets) ==
    Deduplicate(Collected(Take(images, MaxImagesPerPage), "image", FALSE)
                \o Collected(Take(scripts, MaxScriptsPerPage), "js", FALSE)
                \o Collected(Take(stylesheets, MaxStylesheetsPerPage), "css", TRUE),
                {})

-----------------------------------------------------------------------------
(* operations.py: update_crawl_statistics.  COALESCE keeps the stored       *)
(* status when the call passes none; every call of the model passes one.    *)

update_crawl_statistics(stored, status) == IF status = "none" THEN stored ELSE status

\* COALESCE(EXCLUDED.column, crawl_statistics.column); a value is a
\* 1-tuple, None stands for NULL
COALESCE(excluded, stored) == IF excluded = None THEN stored ELSE excluded

\* The parameters of update_crawl_statistics, the defaults being None
Statistics(total_pages, total_assets, status, start_time, end_time) ==
    [total_pages |-> total_pages, total_assets |-> total_assets,
     status |-> status, start_time |-> start_time, end_time |-> end_time]

\* INSERT INTO crawl_statistics ... ON CONFLICT (domain) DO UPDATE SET ...,
\* on the rows of the domain: none or one, domain being UNIQUE
UpsertStatistics(rows, excluded) ==
    IF rows = << >> THEN << excluded >>
    ELSE << [column \in DOMAIN excluded |->
               COALESCE(excluded[column], rows[1][column])] >>

Alive(t) == proc[t] \in {"running", "closing"}

-----------------------------------------------------------------------------
(* operations.py: the writes, on the rows of the tables.  A table is the   *)
(* sequence of its rows in the order of their serial id; timestamps are    *)
(* left out.                                                               *)

NoRows == [crawled_pages |-> << >>, page_metadata |-> << >>, assets |-> << >>,
           articles |-> << >>, crawl_statistics |-> << >>]

\* The row of crawled_pages with the url, url being UNIQUE
PageOfUrl(pages, url) == {i \in DOMAIN pages : pages[i].url = url}

\* insert_page: INSERT INTO crawled_pages ... ON CONFLICT (url) DO UPDATE SET
\* title = EXCLUDED.title, ...
insert_page(db, url, title) ==
    IF PageOfUrl(db.crawled_pages, url) = {}
    THEN [db EXCEPT !.crawled_pages = Append(@, [url |-> url, title |-> title])]
    ELSE [db EXCEPT !.crawled_pages =
             [i \in DOMAIN @ |-> IF @[i].url = url
                                 THEN [@[i] EXCEPT !.title = title] ELSE @[i]]]

\* page_id INTEGER REFERENCES crawled_pages(id): a row of another page_id
\* is refused, and the method rolls back
Referenced(db, page_id) == page_id \in DOMAIN db.crawled_pages

\* insert_metadata_batch: INSERT INTO page_metadata (page_id, meta_key,
\* meta_value), one row per entry of the dict
insert_metadata_batch(db, page_id, metadata_dict) ==
    IF metadata_dict = << >> \/ ~Referenced(db, page_id) THEN db
    ELSE [db EXCEPT !.page_metadata =
             @ \o [i \in DOMAIN metadata_dict |->
                     [page_id |-> page_id, meta_key |-> metadata_dict[i][1],
                      meta_value |-> metadata_dict[i][2]]]]

\* insert_asset_batch: INSERT INTO assets (page_id, type, url, ...), one
\* row per asset
insert_asset_batch(db, page_id, assets) ==
    IF assets = << >> \/ ~Referenced(db, page_id) THEN db
    ELSE [db EXCEPT !.assets =
             @ \o [i \in DOMAIN assets |-> [page_id |-> page_id, url |-> assets[i]]]]

\* insert_article: INSERT INTO articles ... ON CONFLICT DO NOTHING; the
\* table has no unique column but its serial id, so nothing conflicts
insert_article(db, page_id, headline, article_text) ==
    IF (headline = "" /\ article_text = "") \/ ~Referenced(db, page_id) THEN db
    ELSE [db EXCEPT !.articles =
             Append(@, [page_id |-> page_id, headline |-> headline,
                        article_text |-> article_text])]

\* A write of DatabaseOperations, by name, with its arguments
Applied(db, call) ==
    CASE call.op = "insert_page" -> insert_page(db, call.url, call.title)
      [] call.op = "insert_metadata_batch" ->
            insert_metadata_batch(db, call.page_id, call.metadata_dict)
      [] call.op = "insert_asset_batch" ->
            insert_asset_batch(db, call.page_id, call.assets)
      [] call.op = "insert_article" ->
            insert_article(db, call.page_id, call.headline, call.article_text)
      [] call.op = "update_crawl_statistics" ->
            [db EXCEPT !.crawl_statistics = UpsertStatistics(@, call.statistics)]

-----------------------------------------------------------------------------
(* pipelines.py: process_item, and the skeleton of the methods of          *)
(* DatabaseOperations (operations.py).  What the database does in a call   *)
(* is its outcome: "ok"; "error", the statement fails on a connection that *)
(* stays usable; "no_connection", get_connection raises; "lost", the       *)
(* connection is gone, so that the statement and the rollback both raise.  *)

DbOutcomes == {"ok", "error", "no_connection", "lost"}

\* try: ... commit / except Exception: logger.error(...); if conn:
\* conn.rollback() / finally: release: the method is "done", has "failed"
\* (insert_page then returns None), or "raises" out of its handler
Called(outcome) ==
    IF outcome = "ok" THEN "done"
    ELSE IF outcome = "lost" THEN "raises"
    ELSE "failed"

\* The try block of process_item: "item" when it returns the item, "except"
\* when one of its calls raises
ProcessItemTry(item, outcome) ==
    IF Called(outcome["insert_page"]) = "raises" THEN "except"
    ELSE IF Called(outcome["insert_page"]) = "failed" THEN "item"
    ELSE IF item.metadata /\ Called(outcome["insert_metadata_batch"]) = "raises"
         THEN "except"
    ELSE IF item.assets /\ Called(outcome["insert_asset_batch"]) = "raises"
         THEN "except"
    ELSE IF item.article /\ Called(outcome["insert_article"]) = "raises"
         THEN "except"
    ELSE IF Called(outcome["insert_log"]) = "raises" THEN "except"
    ELSE "item"

\* A test that lets every page through whose insert did not raise
PageAssumed(outcome) == Called(outcome["insert_page"]) # "raises"

\* page_id = insert_page(...); if not page_id: return item
PageInserted(outcome) == Called(outcome["insert_page"]) = "done"

\* if item.get(<part>): DatabaseOperations.<method>(page_id, ...), after the
\* calls made so far; nothing more is called once a call has raised
ThenCalled(so_far, wanted, method, outcome) ==
    IF so_far.stopped \/ ~wanted THEN so_far
    ELSE [calls |-> Append(so_far.calls, method),
          stopped |-> Called(outcome[method]) = "raises"]

\* The writes the try block of process_item calls, in order
ProcessItemCalls(item, outcome) ==
    LET page == [calls |-> << "insert_page" >>, stopped |-> ~PageInserted(outcome)]
        metadata == ThenCalled(page, item.metadata, "insert_metadata_batch", outcome)
        assets == ThenCalled(metadata, item.assets, "insert_asset_batch", outcome)
        article == ThenCalled(assets, item.article, "insert_article", outcome)
    IN  article.calls

\* process_item(item, spider): the item returned, or "raised"; the handler
\* calls insert_log before it returns the item
process_item(item, outcome) ==
    IF ProcessItemTry(item, outcome) = "item" THEN "item"
    ELSE IF Called(outcome["insert_log_error"]) = "raises" THEN "raised"
    ELSE "item"

-----------------------------------------------------------------------------
(* The spider subprocess of run t (spider.py, pipelines.py) *)

\* An update written from a value read before the last update: that one
\* is lost
AddStale(counter, t, n) == [counter EXCEPT ![t] = Max(@ - 1, 0) + n]

\* self.<counter> += n, in a callback of the reactor thread
Add(counter, t, n) == [counter EXCEPT ![t] = @ + n]

\* The logger writes a line to the output stream of the subprocess
Emit(t, line) == stdout' = [stdout EXCEPT ![t] = Append(@, line)]

\* WebCrawlerSpider.__init__: ProgressTracker(self.domain, total=100)
SpiderInit(t) ==
    /\ proc[t] = "running" /\ sp_pc[t] = "init"
    /\ redis_progress' = TrackerInitProgress(redis_progress)
    /\ redis_total' = TrackerInitTotal(redis_total)
    /\ sp_pc' = [sp_pc EXCEPT ![t] = "open_spider"]
    /\ UNCHANGED << site, pureVars, stdout, supVars, procVars, db_status,
                    endWrites, crawlVars >>

\* ProgressTracker.__init__ raises when Redis cannot be reached: the spider
\* cannot be built and scrapy exits with a non-zero code
SpiderInitFails(t) ==
    /\ proc[t] = "running" /\ sp_pc[t] = "init"
    /\ proc' = [proc EXCEPT ![t] = "exited"]
    /\ returncode' = [returncode EXCEPT ![t] = 1]
    /\ sp_pc' = [sp_pc EXCEPT ![t] = "dead"]
    /\ UNCHANGED << site, pureVars, stdout, supVars, redisVars, db_status,
                    endWrites, crawlVars >>

\* PostgreSQLPipeline.open_spider
open_spider(t) ==
    /\ proc[t] = "running" /\ sp_pc[t] = "open_spider"
    /\ db_status' = update_crawl_statistics(db_status, "running")
    /\ sp_pc' = [sp_pc EXCEPT ![t] = "spider_opened"]
    /\ UNCHANGED << site, pureVars, stdout, supVars, procVars, redisVars,
                    endWrites, crawlVars >>

\* WebCrawlerSpider.spider_opened
spider_opened(t) ==
    /\ proc[t] = "running" /\ sp_pc[t] = "spider_opened"
    /\ db_status' = update_crawl_statistics(db_status, "running")
    /\ sp_pc' = [sp_pc EXCEPT ![t] = "start_requests"]
    /\ UNCHANGED << site, pureVars, stdout, supVars, procVars, redisVars,
                    endWrites, crawlVars >>

\* WebCrawlerSpider.start_requests: the seed Request, dont_filter=True;
\* the seed's fingerprint is not put into urls_seen
start_requests(t) ==
    /\ proc[t] = "running" /\ sp_pc[t] = "start_requests"
    /\ queue' = [queue EXCEPT ![t] = {Request(start_url, 0)}]
    /\ reqCount' = [reqCount EXCEPT ![t] = Count(@, << start_url >>)]
    /\ sp_pc' = [sp_pc EXCEPT ![t] = "crawl"]
    /\ UNCHANGED << site, pureVars, stdout, supVars, procVars, redisVars,
                    db_status, endWrites, pages_crawled, pages_failed,
                    urls_seen, urls_crawled, inflight, responses, assetVars,
                    items, gens, fetches >>

\* Scrapy's downloader takes a Request from the scheduler, unless the
\* page-count ceiling was reached
Download(t, r) ==
    /\ proc[t] = "running" /\ sp_pc[t] = "crawl"
    /\ r \in queue[t]
    /\ ~Closing(t)
    /\ Cardinality(inflight[t]) < CONCURRENT_REQUESTS_PER_DOMAIN
    /\ queue' = [queue EXCEPT ![t] = @ \ {r}]
    /\ inflight' = [inflight EXCEPT ![t] = @ \cup {r}]
    /\ UNCHANGED << site, pureVars, stdout, supVars, procVars, redisVars,
                    db_status, endWrites, sp_pc, pages_crawled, pages_failed,
                    urls_seen, urls_crawled, responses, reqCount, assetVars,
                    items, gens, fetches >>

\* The server answers this fetch of the Request with status 503
Unavailable(r) == r.retry_times < transient[r.url.path]

\* A RetryMiddleware that gives up at once
RetriesNever(r) == FALSE

\* Scrapy's RetryMiddleware under RETRY_TIMES: retry_times + 1 <= max
Retries(r) == r.retry_times + 1 <= RETRY_TIMES

\* A 503 answer within RETRY_TIMES: the Request goes back to the scheduler
\* and no callback of the spider is called
retry(t, r) ==
    /\ proc[t] = "running" /\ sp_pc[t] = "crawl"
    /\ r \in inflight[t]
    /\ Unavailable(r) /\ Retries(r)
    /\ inflight' = [inflight EXCEPT ![t] = @ \ {r}]
    /\ queue' = [queue EXCEPT ![t] = @ \cup {[r EXCEPT !.retry_times = @ + 1]}]
    /\ UNCHANGED << site, pureVars, stdout, supVars, procVars, redisVars,
                    db_status, endWrites, sp_pc, pages_crawled, pages_failed,
                    urls_seen, urls_crawled, responses, reqCount, assetVars,
                    items, gens, fetches >>

\* parse(response) from "Update progress" to "yield item" and the pipeline:
\* item_scraped writes the statistics; the generator stays suspended
YieldItem(t, page, depth, uploaded_assets) ==
    /\ assets_uploaded' = Add(assets_uploaded, t, Uploaded(uploaded_assets))
    /\ redis_progress' = increment_progress(redis_progress, progress_increment)
    /\ db_status' = update_crawl_statistics(db_status, "running")
    /\ items' = [items EXCEPT ![t] = @ + 1]
    /\ gens' = [gens EXCEPT ![t] =
                   @ \cup {[page |-> page, depth |-> depth, idx |-> 1, followed |-> 0]}]
    /\ UNCHANGED redis_total

\* parse(response) of a text response with status < 400 whose URL was not
\* crawled before and has no assets: up to "yield item"
ParsePage(t, r) ==
    /\ YieldItem(t, r.url.path, r.depth, << >>)
    /\ UNCHANGED << sp_pc, pool >>

\* ... and has assets: upload_assets_concurrent submits them to the pool and
\* waits in the "with" block
ParseUpload(t, r) ==
    /\ pool' = [pool EXCEPT ![t] = [active |-> TRUE, page |-> r.url.path,
                                    depth |-> r.depth, next |-> 1, running |-> {}]]
    /\ sp_pc' = [sp_pc EXCEPT ![t] = "uploading"]
    /\ UNCHANGED << redisVars, db_status, assets_uploaded, items, gens >>

\* parse without its dedup test: the response of a URL crawled before is
\* counted and processed again
ParseAgain(t, r) ==
    /\ pages_crawled' = Add(pages_crawled, t, 1)
    /\ ParsePage(t, r)
    /\ UNCHANGED << urls_crawled, stdout >>

\* parse(response) returning early: already crawled
ParseDuplicate(t, r) ==
    UNCHANGED << urls_crawled, pages_crawled, redisVars, db_status, stdout,
                 sp_pc, assets_uploaded, pool, items, gens >>

\* if item.get('assets') and the test of upload_assets_concurrent
Uploads(assets_list) == CLOUDINARY_ENABLED /\ assets_list # << >>

\* A response with status < 400 and a text body is delivered to parse
parse(t, r) ==
    /\ proc[t] = "running" /\ sp_pc[t] = "crawl"
    /\ r \in inflight[t]
    /\ ~Unavailable(r)
    /\ inflight' = [inflight EXCEPT ![t] = @ \ {r}]
    /\ responses' = [responses EXCEPT ![t] = @ + 1]
    /\ fetches' = [fetches EXCEPT ![t].ok = @ + 1]
    /\ IF md5(r.url) \in urls_crawled[t] THEN ParseDuplicate(t, r)
       ELSE /\ urls_crawled' = [urls_crawled EXCEPT ![t] = @ \cup {md5(r.url)}]
            /\ pages_crawled' = Add(pages_crawled, t, 1)
            /\ Emit(t, "Crawling:")
            /\ IF Uploads(page_assets[r.url.path]) THEN ParseUpload(t, r)
               ELSE ParsePage(t, r)
    /\ UNCHANGED << site, pureVars, supVars, procVars, endWrites, pages_failed,
                    urls_seen, queue, reqCount, results_returned >>

\* A worker of the pool takes the next asset submitted
AssetStart(t) ==
    /\ proc[t] = "running" /\ sp_pc[t] = "uploading"
    /\ pool[t].next <= Len(page_assets[pool[t].page])
    /\ PoolFree(pool[t].running)
    /\ pool' = [pool EXCEPT ![t].running = @ \cup {pool[t].next},
                            ![t].next = @ + 1]
    /\ UNCHANGED << site, pureVars, stdout, supVars, procVars, redisVars,
                    db_status, endWrites, sp_pc, pages_crawled, pages_failed,
                    urls_seen, urls_crawled, queue, inflight, responses,
                    reqCount, assets_uploaded, results_returned, items, gens,
                    fetches >>

\* download_and_upload of an asset returns in its worker
AssetDone(t, a) ==
    /\ proc[t] = "running" /\ sp_pc[t] = "uploading"
    /\ a \in pool[t].running
    /\ pool' = [pool EXCEPT ![t].running = @ \ {a}]
    /\ results_returned' = [results_returned EXCEPT ![t] =
           IF download_and_upload(page_assets[pool[t].page][a]) # None
           THEN @ + 1 ELSE @]
    /\ UNCHANGED << site, pureVars, stdout, supVars, procVars, redisVars,
                    db_status, endWrites, sp_pc, pages_crawled, pages_failed,
                    urls_seen, urls_crawled, queue, inflight, responses,
                    reqCount, assets_uploaded, items, gens, fetches >>

\* upload_assets_concurrent returns when every future is done; parse counts
\* the uploads and goes on to "yield item"
parse_uploaded(t) ==
    /\ proc[t] = "running" /\ sp_pc[t] = "uploading"
    /\ pool[t].next > Len(page_assets[pool[t].page])
    /\ pool[t].running = {}
    /\ YieldItem(t, pool[t].page, pool[t].depth,
                 upload_assets_concurrent(page_assets[pool[t].page]))
    /\ pool' = [pool EXCEPT ![t] = NoPool]
    /\ sp_pc' = [sp_pc EXCEPT ![t] = "crawl"]
    /\ UNCHANGED << site, pureVars, stdout, supVars, procVars, endWrites,
                    pages_crawled, pages_failed, urls_seen, urls_crawled,
                    queue, inflight, responses, reqCount, results_returned,
                    fetches >>

\* The generator of a page is resumed: _extract_links runs to its next
\* yield, the link marked seen and its Request handed to the scheduler, or
\* to its end
follow(t, gen) ==
    LET link == Extracted(gen, urls_seen[t])
    IN  /\ proc[t] = "running" /\ sp_pc[t] = "crawl"
        /\ gen \in gens[t]
        /\ IF link.found
           THEN /\ urls_seen' = [urls_seen EXCEPT ![t] = Marked(@, link.url)]
                /\ queue' = [queue EXCEPT ![t] =
                                @ \cup Scheduled(<< link.url >>, gen.depth + 1)]
                /\ reqCount' = [reqCount EXCEPT ![t] = Count(@, << link.url >>)]
                /\ gens' = [gens EXCEPT ![t] =
                               (@ \ {gen}) \cup {[gen EXCEPT !.idx = link.idx + 1,
                                                             !.followed = @ + 1]}]
           ELSE /\ gens' = [gens EXCEPT ![t] = @ \ {gen}]
                /\ UNCHANGED << urls_seen, queue, reqCount >>
        /\ UNCHANGED << site, pureVars, stdout, supVars, procVars, redisVars,
                        db_status, endWrites, sp_pc, pages_crawled,
                        pages_failed, urls_crawled, inflight, responses,
                        assetVars, items, fetches >>

\* parse without the early returns of its first tests: the failure is
\* counted and the response processed as a page
parse_rejected_processed(t, r) ==
    /\ proc[t] = "running" /\ sp_pc[t] = "crawl"
    /\ r \in inflight[t]
    /\ ~Unavailable(r)
    /\ inflight' = [inflight EXCEPT ![t] = @ \ {r}]
    /\ responses' = [responses EXCEPT ![t] = @ + 1]
    /\ pages_failed' = Add(pages_failed, t, 1)
    /\ fetches' = [fetches EXCEPT ![t].failed = @ + 1]
    /\ urls_crawled' = [urls_crawled EXCEPT ![t] = @ \cup {md5(r.url)}]
    /\ pages_crawled' = Add(pages_crawled, t, 1)
    /\ ParsePage(t, r)
    /\ UNCHANGED << site, pureVars, stdout, supVars, procVars, endWrites,
                    urls_seen, queue, reqCount, results_returned >>

\* A non-text response or one with status >= 400 (404 and 500 reach parse):
\* pages_failed += 1 and nothing else
parse_rejected(t, r) ==
    /\ proc[t] = "running" /\ sp_pc[t] = "crawl"
    /\ r \in inflight[t]
    /\ ~Unavailable(r)
    /\ inflight' = [inflight EXCEPT ![t] = @ \ {r}]
    /\ responses' = [responses EXCEPT ![t] = @ + 1]
    /\ pages_failed' = Add(pages_failed, t, 1)
    /\ fetches' = [fetches EXCEPT ![t].failed = @ + 1]
    /\ UNCHANGED << site, pureVars, stdout, supVars, procVars, redisVars,
                    db_status, endWrites, sp_pc, pages_crawled, urls_seen,
                    urls_crawled, queue, reqCount, assetVars, items, gens >>

\* errback(failure): the download failed, or the last retry was answered
\* 503 too and HttpErrorMiddleware refuses the response
errback(t, r) ==
    /\ proc[t] = "running" /\ sp_pc[t] = "crawl"
    /\ r \in inflight[t]
    /\ Unavailable(r) => ~Retries(r)
    /\ inflight' = [inflight EXCEPT ![t] = @ \ {r}]
    /\ responses' = [responses EXCEPT ![t] = IF Unavailable(r) THEN @ + 1 ELSE @]
    /\ pages_failed' = Add(pages_failed, t, 1)
    /\ fetches' = [fetches EXCEPT ![t].failed = @ + 1,
                                  ![t].gave_up = IF Unavailable(r)
                                                 THEN @ \cup {r} ELSE @]
    /\ Emit(t, "ERROR")
    /\ UNCHANGED << site, pureVars, supVars, procVars, redisVars, db_status,
                    endWrites, sp_pc, pages_crawled, urls_seen, urls_crawled,
                    queue, reqCount, assetVars, items, gens >>

\* Scrapy closes the spider: nothing in flight or being processed, and
\* nothing left to download or the ceiling reached
SpiderIdle(t) ==
    /\ proc[t] = "running" /\ sp_pc[t] = "crawl"
    /\ inflight[t] = {} /\ gens[t] = {}
    /\ queue[t] = {} \/ Closing(t)
    /\ sp_pc' = [sp_pc EXCEPT ![t] = "close_spider"]
    /\ UNCHANGED << site, pureVars, stdout, supVars, procVars, redisVars,
                    db_status, endWrites, crawlVars >>

\* PostgreSQLPipeline.close_spider: status 'completed' with an end_time
close_spider(t) ==
    /\ proc[t] = "running" /\ sp_pc[t] = "close_spider"
    /\ db_status' = update_crawl_statistics(db_status, "completed")
    /\ endWrites' = [endWrites EXCEPT ![t] = @ + 1]
    /\ sp_pc' = [sp_pc EXCEPT ![t] = "spider_closed"]
    /\ UNCHANGED << site, pureVars, stdout, supVars, procVars, redisVars,
                    crawlVars >>

\* The status spider_closed writes
ClosedStatus(crawled) == IF crawled > 0 THEN "completed" ELSE "failed"

\* WebCrawlerSpider.spider_closed: the final statistics, with an end_time
spider_closed(t) ==
    /\ proc[t] = "running" /\ sp_pc[t] = "spider_closed"
    /\ Emit(t, "CLOSED")
    /\ db_status' = update_crawl_statistics(db_status, ClosedStatus(pages_crawled[t]))
    /\ endWrites' = [endWrites EXCEPT ![t] = @ + 1]
    /\ sp_pc' = [sp_pc EXCEPT ![t] = "set_progress"]
    /\ UNCHANGED << site, pureVars, supVars, procVars, redisVars, crawlVars >>

\* WebCrawlerSpider.spider_closed, its last statement: set_progress(100)
spider_closed_progress(t) ==
    /\ proc[t] = "running" /\ sp_pc[t] = "set_progress"
    /\ redis_progress' = IF pages_crawled[t] > 0 THEN FullProgress * Scale
                         ELSE redis_progress
    /\ sp_pc' = [sp_pc EXCEPT ![t] = "finished"]
    /\ UNCHANGED << site, pureVars, stdout, supVars, procVars, redis_total,
                    db_status, endWrites, crawlVars >>

\* The process closes its output stream on its way out ...
ProcessClosesOutput(t) ==
    /\ proc[t] = "running" /\ sp_pc[t] = "finished"
    /\ proc' = [proc EXCEPT ![t] = "closing"]
    /\ UNCHANGED << site, pureVars, stdout, supVars, returncode, redisVars,
                    db_status, endWrites, spiderVars >>

\* ... and exits with code 0
ProcessExits(t) ==
    /\ proc[t] = "closing"
    /\ proc' = [proc EXCEPT ![t] = "exited"]
    /\ returncode' = [returncode EXCEPT ![t] = 0]
    /\ UNCHANGED << site, pureVars, stdout, supVars, redisVars, db_status,
                    endWrites, spiderVars >>

SpiderStep(t) ==
    \/ SpiderInit(t)
    \/ SpiderInitFails(t)
    \/ open_spider(t)
    \/ spider_opened(t)
    \/ start_requests(t)
    \/ \E r \in queue[t] : Download(t, r)
    \/ \E r \in inflight[t] : retry(t, r)
    \/ \E r \in inflight[t] : parse(t, r)
    \/ AssetStart(t)
    \/ \E a \in pool[t].running : AssetDone(t, a)
    \/ parse_uploaded(t)
    \/ \E gen \in gens[t] : follow(t, gen)
    \/ \E r \in inflight[t] : parse_rejected(t, r)
    \/ \E r \in inflight[t] : errback(t, r)
    \/ SpiderIdle(t)
    \/ close_spider(t)
    \/ spider_closed(t)
    \/ spider_closed_progress(t)
    \/ ProcessClosesOutput(t)
    \/ ProcessExits(t)

-----------------------------------------------------------------------------
(* app.py: index() and run_crawl_task(url, domain) *)

\* ProgressTracker.reset(): both keys deleted, then set to 0 and 100
reset == [progress |-> 0, total |-> DefaultTotal]

\* index(), POST of a verified URL: ProgressTracker(domain).reset(), then
\* the thread running run_crawl_task is started.  Threads are named in the
\* order of their launch.
index(t) ==
    /\ pc[t] = "idle"
    /\ t = "t2" => pc["t1"] # "idle"
    /\ redis_progress' = reset.progress
    /\ redis_total' = reset.total
    /\ resets' = [resets EXCEPT ![t] = @ + 1]
    /\ pc' = [pc EXCEPT ![t] = "s_tracker"]
    /\ UNCHANGED << site, pureVars, stdout, exit_path, sup_status, error_logs,
                    output_lines, procVars, active_crawls, db_status,
                    endWrites, spiderVars >>

\* tracker = ProgressTracker(domain); tracker.reset(); tracker.set_total(100)
SupTracker(t) ==
    /\ pc[t] = "s_tracker"
    /\ redis_progress' = reset.progress
    /\ redis_total' = DefaultTotal
    /\ resets' = [resets EXCEPT ![t] = @ + 1]
    /\ pc' = [pc EXCEPT ![t] = "s_running"]
    /\ UNCHANGED << site, pureVars, stdout, exit_path, sup_status, error_logs,
                    output_lines, procVars, active_crawls, db_status,
                    endWrites, spiderVars >>

\* ProgressTracker(domain) raises (Redis unreachable): except Exception
SupTrackerRaises(t) ==
    /\ pc[t] = "s_tracker"
    /\ pc' = [pc EXCEPT ![t] = "h_exception"]
    /\ UNCHANGED << site, pureVars, stdout, exit_path, logVars, procVars, active_crawls, redisVars,
                    db_status, endWrites, spiderVars >>

\* update_crawl_statistics(status='running', start_time=now)
SupMarkRunning(t) ==
    /\ pc[t] = "s_running"
    /\ db_status' = update_crawl_statistics(db_status, "running")
    /\ sup_status' = [sup_status EXCEPT ![t] = "running"]
    /\ pc' = [pc EXCEPT ![t] = "s_popen"]
    /\ UNCHANGED << site, pureVars, stdout, exit_path, error_logs, resets,
                    output_lines, procVars, active_crawls, redisVars,
                    endWrites, spiderVars >>

\* subprocess.Popen(cmd, ...): the spider process starts
SupPopen(t) ==
    /\ pc[t] = "s_popen"
    /\ proc' = [proc EXCEPT ![t] = "running"]
    /\ sp_pc' = [sp_pc EXCEPT ![t] = "init"]
    /\ pc' = [pc EXCEPT ![t] = "s_register"]
    /\ UNCHANGED << site, pureVars, stdout, exit_path, logVars, returncode, active_crawls, redisVars,
                    db_status, endWrites, crawlVars >>

\* spider.py or the executable is missing: FileNotFoundError, process = None
SupPopenFails(t) ==
    /\ pc[t] = "s_popen"
    /\ pc' = [pc EXCEPT ![t] = "h_notfound"]
    /\ UNCHANGED << site, pureVars, stdout, exit_path, logVars, procVars, active_crawls, redisVars,
                    db_status, endWrites, spiderVars >>

\* active_crawls[domain] = process
SupRegister(t) ==
    /\ pc[t] = "s_register"
    /\ active_crawls' = t
    /\ pc' = [pc EXCEPT ![t] = "s_read"]
    /\ UNCHANGED << site, pureVars, stdout, exit_path, logVars, procVars, redisVars, db_status,
                    endWrites, spiderVars >>

\* The loop over the output lines fails the run at a line marked ERROR
ProcessLineMarked(stored, line) == IF line = "ERROR" THEN "failed" ELSE stored

\* The status after the body of the loop over the output lines has run for a
\* line: the line is kept in output_lines and logged, whatever it holds
ProcessLine(stored, line) == stored

\* for line in iter(process.stdout.readline, ''): one line read
SupReadLine(t) ==
    /\ pc[t] = "s_read"
    /\ stdout[t] # << >>
    /\ output_lines' = [output_lines EXCEPT ![t] = Append(@, Head(stdout[t]))]
    /\ stdout' = [stdout EXCEPT ![t] = Tail(@)]
    /\ db_status' = ProcessLine(db_status, Head(stdout[t]))
    /\ sup_status' = [sup_status EXCEPT ![t] = ProcessLine(@, Head(stdout[t]))]
    /\ UNCHANGED << site, pureVars, pc, exit_path, error_logs, resets, procVars,
                    active_crawls, redisVars, endWrites, spiderVars >>

\* readline returns '' only once the process has closed its output stream
\* and every line was read
SupReadEOF(t) ==
    /\ pc[t] = "s_read"
    /\ proc[t] \in {"closing", "exited"}
    /\ stdout[t] = << >>
    /\ pc' = [pc EXCEPT ![t] = "s_wait"]
    /\ UNCHANGED << site, pureVars, stdout, exit_path, logVars, procVars, active_crawls, redisVars,
                    db_status, endWrites, spiderVars >>

\* readline raises on a line that cannot be decoded: except Exception
SupReadRaises(t) ==
    /\ pc[t] = "s_read"
    /\ proc[t] = "running"
    /\ pc' = [pc EXCEPT ![t] = "h_exception"]
    /\ UNCHANGED << site, pureVars, stdout, exit_path, logVars, procVars, active_crawls, redisVars,
                    db_status, endWrites, spiderVars >>

\* return_code = process.wait(timeout=3600), the process having exited
SupWaitReturns(t) ==
    /\ pc[t] = "s_wait"
    /\ proc[t] = "exited"
    /\ pc' = [pc EXCEPT ![t] = "s_result"]
    /\ UNCHANGED << site, pureVars, stdout, exit_path, logVars, procVars, active_crawls, redisVars,
                    db_status, endWrites, spiderVars >>

\* process.wait(timeout=3600) raises TimeoutExpired: the process closed its
\* output stream and is still running when the 3600 s of the wait are over
SupWaitTimeout(t) ==
    /\ pc[t] = "s_wait"
    /\ Alive(t)
    /\ pc' = [pc EXCEPT ![t] = "h_timeout"]
    /\ UNCHANGED << site, pureVars, stdout, exit_path, logVars, procVars, active_crawls, redisVars,
                    db_status, endWrites, spiderVars >>

\* A supervisor that takes every return code for a success
ResultStatusAlways(code) == "completed"

\* The status run_crawl_task writes for a return code
ResultStatus(code) == IF code = 0 THEN "completed" ELSE "failed"

\* insert_log(domain, ..., "ERROR") of the branch taken for a return code
ResultErrors(code) == IF code = 0 THEN 0 ELSE 1

\* if return_code == 0: ... status='completed' else: ... status='failed',
\* both with end_time=now
SupResult(t) ==
    /\ pc[t] = "s_result"
    /\ db_status' = update_crawl_statistics(db_status, ResultStatus(returncode[t]))
    /\ sup_status' = [sup_status EXCEPT ![t] = ResultStatus(returncode[t])]
    /\ error_logs' = [error_logs EXCEPT ![t] = @ + ResultErrors(returncode[t])]
    /\ endWrites' = [endWrites EXCEPT ![t] = @ + 1]
    /\ exit_path' = [exit_path EXCEPT ![t] = "returned"]
    /\ pc' = [pc EXCEPT ![t] = "f_check"]
    /\ UNCHANGED << site, pureVars, stdout, resets, output_lines, procVars,
                    active_crawls, redisVars, spiderVars >>

\* except subprocess.TimeoutExpired: status='failed', end_time=now ...
HandleTimeout(t) ==
    /\ pc[t] = "h_timeout"
    /\ db_status' = update_crawl_statistics(db_status, "failed")
    /\ sup_status' = [sup_status EXCEPT ![t] = "failed"]
    /\ error_logs' = [error_logs EXCEPT ![t] = @ + 1]
    /\ endWrites' = [endWrites EXCEPT ![t] = @ + 1]
    /\ exit_path' = [exit_path EXCEPT ![t] = "timeout"]
    /\ pc' = [pc EXCEPT ![t] = "h_kill"]
    /\ UNCHANGED << site, pureVars, stdout, resets, output_lines, procVars,
                    active_crawls, redisVars, spiderVars >>

\* The state of a process after kill() (a process that exited keeps its code)
KilledState(state) == "exited"
KilledCode(state, code) == IF state = "exited" THEN code ELSE -9

\* ... if process: process.kill(); process.wait()
HandleTimeoutKill(t) ==
    /\ pc[t] = "h_kill"
    /\ proc' = [proc EXCEPT ![t] = KilledState(@)]
    /\ returncode' = [returncode EXCEPT ![t] = KilledCode(proc[t], @)]
    /\ pc' = [pc EXCEPT ![t] = "f_check"]
    /\ UNCHANGED << site, pureVars, stdout, exit_path, logVars, active_crawls, redisVars, db_status,
                    endWrites, spiderVars >>

\* except FileNotFoundError: status='failed', end_time=now
HandleNotFound(t) ==
    /\ pc[t] = "h_notfound"
    /\ db_status' = update_crawl_statistics(db_status, "failed")
    /\ sup_status' = [sup_status EXCEPT ![t] = "failed"]
    /\ error_logs' = [error_logs EXCEPT ![t] = @ + 1]
    /\ endWrites' = [endWrites EXCEPT ![t] = @ + 1]
    /\ exit_path' = [exit_path EXCEPT ![t] = "not_found"]
    /\ pc' = [pc EXCEPT ![t] = "f_check"]
    /\ UNCHANGED << site, pureVars, stdout, resets, output_lines, procVars,
                    active_crawls, redisVars, spiderVars >>

\* except Exception: status='failed', end_time=now
HandleException(t) ==
    /\ pc[t] = "h_exception"
    /\ db_status' = update_crawl_statistics(db_status, "failed")
    /\ sup_status' = [sup_status EXCEPT ![t] = "failed"]
    /\ error_logs' = [error_logs EXCEPT ![t] = @ + 1]
    /\ endWrites' = [endWrites EXCEPT ![t] = @ + 1]
    /\ exit_path' = [exit_path EXCEPT ![t] = "exception"]
    /\ pc' = [pc EXCEPT ![t] = "f_check"]
    /\ UNCHANGED << site, pureVars, stdout, resets, output_lines, procVars,
                    active_crawls, redisVars, spiderVars >>

\* finally: if domain in active_crawls
FinallyCheck(t) ==
    /\ pc[t] = "f_check"
    /\ pc' = [pc EXCEPT ![t] = IF active_crawls # "none" THEN "f_del" ELSE "f_poll"]
    /\ UNCHANGED << site, pureVars, stdout, exit_path, logVars, procVars, active_crawls, redisVars,
                    db_status, endWrites, spiderVars >>

\* A finally block that leaves the entry of the domain in the registry
DeletedNever(entry) == entry

\* The registry after del active_crawls[domain]
Deleted(entry) == "none"

\* del active_crawls[domain]; KeyError when another thread deleted the
\* entry after the test: the exception leaves the function
FinallyDel(t) ==
    /\ pc[t] = "f_del"
    /\ active_crawls' = Deleted(active_crawls)
    /\ pc' = [pc EXCEPT ![t] = IF active_crawls # "none" THEN "f_poll" ELSE "raised"]
    /\ UNCHANGED << site, pureVars, stdout, exit_path, logVars, procVars, redisVars, db_status,
                    endWrites, spiderVars >>

\* if process and process.poll() is None: process.terminate()
FinallyPoll(t) ==
    /\ pc[t] = "f_poll"
    /\ pc' = [pc EXCEPT ![t] = IF Alive(t) THEN "f_wait" ELSE "done"]
    /\ UNCHANGED << site, pureVars, stdout, exit_path, logVars, procVars, active_crawls, redisVars,
                    db_status, endWrites, spiderVars >>

\* The process ends on the terminate signal
ProcessTerminated(t) ==
    /\ pc[t] = "f_wait"
    /\ Alive(t)
    /\ proc' = [proc EXCEPT ![t] = "exited"]
    /\ returncode' = [returncode EXCEPT ![t] = -15]
    /\ UNCHANGED << site, pureVars, stdout, supVars, redisVars, db_status, endWrites, spiderVars >>

\* process.wait(timeout=5) returns
FinallyWaitReturns(t) ==
    /\ pc[t] = "f_wait"
    /\ proc[t] = "exited"
    /\ pc' = [pc EXCEPT ![t] = "done"]
    /\ UNCHANGED << site, pureVars, stdout, exit_path, logVars, procVars, active_crawls, redisVars,
                    db_status, endWrites, spiderVars >>

\* process.wait(timeout=5) raises TimeoutExpired; except: process.kill()
FinallyKill(t) ==
    /\ pc[t] = "f_wait"
    /\ Alive(t)
    /\ proc' = [proc EXCEPT ![t] = KilledState(@)]
    /\ returncode' = [returncode EXCEPT ![t] = KilledCode(proc[t], @)]
    /\ pc' = [pc EXCEPT ![t] = "done"]
    /\ UNCHANGED << site, pureVars, stdout, exit_path, logVars, active_crawls, redisVars, db_status,
                    endWrites, spiderVars >>

run_crawl_task(t) ==
    \/ SupTracker(t)
    \/ SupTrackerRaises(t)
    \/ SupMarkRunning(t)
    \/ SupPopen(t)
    \/ SupPopenFails(t)
    \/ SupRegister(t)
    \/ SupReadLine(t)
    \/ SupReadEOF(t)
    \/ SupReadRaises(t)
    \/ SupWaitReturns(t)
    \/ SupWaitTimeout(t)
    \/ SupResult(t)
    \/ HandleTimeout(t)
    \/ HandleTimeoutKill(t)
    \/ HandleNotFound(t)
    \/ HandleException(t)
    \/ FinallyCheck(t)
    \/ FinallyDel(t)
    \/ FinallyPoll(t)
    \/ FinallyWaitReturns(t)
    \/ FinallyKill(t)

-----------------------------------------------------------------------------
(* The system *)

Returned(t) == pc[t] \in {"done", "raised"}

\* No percentage asked for on its own
NoReading == [progress |-> -1, total |-> -1, reachable |-> TRUE,
              called |-> FALSE, percentage |-> 0]

\* No list of assets uploaded on its own
NoBatch == [assets_list |-> << >>, submitted |-> FALSE, pending |-> {},
            uploaded_assets |-> << >>, returned |-> FALSE]

\* No Celery task
NoTask == [url |-> TRUE, domain |-> TRUE, tracker |-> "ok", popen |-> "ok",
           read |-> "ok", wait |-> "zero", called |-> FALSE,
           result |-> "none", process |-> "none"]

\* The pool after initialize_pool: no connection checked out, no method
\* called
NoCalls == [checked_out |-> 0, method |-> "none", getconn |-> "ok",
            cursor |-> "ok", execute |-> "ok", rollback |-> "ok",
            taken |-> 0, released |-> 0, raised |-> FALSE]

\* No response handled on its own
NoResponse == [text |-> TRUE, status |-> 200, crawled_before |-> FALSE,
               raises |-> FALSE, pages_crawled |-> 0, pages_failed |-> 0,
               before |-> 0, callback |-> "none"]

\* No link discovered on its own
NoFrontier == [urls_seen |-> {}, scheduler |-> {}, before |-> {},
               link |-> start_url, depth |-> 0, discovered |-> FALSE,
               scheduled |-> FALSE]

\* No write applied on its own
NoWrites == [db |-> NoRows, call |-> [op |-> "none"], applied |-> "none",
             once |-> NoRows]

\* No item handed to the pipeline on its own
NoItem == [item |-> [metadata |-> FALSE, assets |-> FALSE, article |-> FALSE],
           outcome |-> [c \in {"insert_page", "insert_metadata_batch",
                               "insert_asset_batch", "insert_article",
                               "insert_log", "insert_log_error"} |-> "ok"],
           called |-> FALSE, result |-> "none", calls |-> << >>]

\* No launch on the stores of a finished run
NoLaunch == [crawl_statistics |-> << >>, progress |-> -1, total |-> -1,
             step |-> "done"]

\* No page whose assets are extracted on their own
NoAssets == [images |-> << >>, scripts |-> << >>, stylesheets |-> << >>,
             called |-> FALSE, unique |-> << >>]

\* No page whose links are extracted on their own
NoLinks == [hrefs |-> << >>, before |-> {}, seen |-> {}, idx |-> 1,
            yielded |-> << >>, done |-> TRUE]

\* No asset downloaded on its own
NoDownload == [asset |-> AssetOk, called |-> FALSE, result |-> None]

\* The dedup keys of two URLs, not computed yet
NoHashes == [u1 |-> start_url, u2 |-> start_url, seen |-> << >>, crawled |-> << >>]

InitOn(webs) ==
    /\ site \in webs
    /\ pc = [t \in Tasks |-> "idle"]
    /\ proc = [t \in Tasks |-> "none"]
    /\ returncode = [t \in Tasks |-> -1]
    /\ exit_path = [t \in Tasks |-> "none"]
    /\ active_crawls = "none"
    /\ redis_progress = -1
    /\ redis_total = -1
    /\ db_status = "none"
    /\ endWrites = [t \in Tasks |-> 0]
    /\ sp_pc = [t \in Tasks |-> "off"]
    /\ pages_crawled = [t \in Tasks |-> 0]
    /\ pages_failed = [t \in Tasks |-> 0]
    /\ urls_seen = [t \in Tasks |-> {}]
    /\ urls_crawled = [t \in Tasks |-> {}]
    /\ queue = [t \in Tasks |-> {}]
    /\ inflight = [t \in Tasks |-> {}]
    /\ responses = [t \in Tasks |-> 0]
    /\ reqCount = [t \in Tasks |-> << >>]
    /\ sup_status = [t \in Tasks |-> "none"]
    /\ error_logs = [t \in Tasks |-> 0]
    /\ resets = [t \in Tasks |-> 0]
    /\ stdout = [t \in Tasks |-> << >>]
    /\ output_lines = [t \in Tasks |-> << >>]
    /\ assets_uploaded = [t \in Tasks |-> 0]
    /\ pool = [t \in Tasks |-> NoPool]
    /\ results_returned = [t \in Tasks |-> 0]
    /\ items = [t \in Tasks |-> 0]
    /\ gens = [t \in Tasks |-> {}]
    /\ fetches = [t \in Tasks |-> [ok |-> 0, failed |-> 0, gave_up |-> {}]]

Run(t) ==
    \/ index(t)
    \/ run_crawl_task(t)
    \/ ProcessTerminated(t)
    \/ SpiderStep(t)

\* Two launch requests for the domain, in any interleaving, on a site whose
\* seed page has no crawlable link
Init ==
    /\ InitOn({"leaf"})
    /\ hashed = NoHashes
    /\ downloaded = NoDownload
    /\ extracted = NoLinks
    /\ assets_found = NoAssets
    /\ relaunched = NoLaunch
    /\ piped = NoItem
    /\ written = NoWrites
    /\ frontier = NoFrontier
    /\ parsed = NoResponse
    /\ pooled = NoCalls
    /\ celery = NoTask
    /\ uploading = NoBatch
    /\ percent = NoReading

Next == \E t \in Tasks : Run(t)

Spec == Init /\ [][Next]_vars

\* One launch request, on each of the sites
RunInit ==
    /\ InitOn({"leaf", "loop", "wide"})
    /\ hashed = NoHashes
    /\ downloaded = NoDownload
    /\ extracted = NoLinks
    /\ assets_found = NoAssets
    /\ relaunched = NoLaunch
    /\ piped = NoItem
    /\ written = NoWrites
    /\ frontier = NoFrontier
    /\ parsed = NoResponse
    /\ pooled = NoCalls
    /\ celery = NoTask
    /\ uploading = NoBatch
    /\ percent = NoReading

RunNext == Run("t1")

RunSpec == RunInit /\ [][RunNext]_vars

\* The steps of run_crawl_task that are taken whenever they can be: all but
\* the faults of its environment.  Time passes, so a wait with a timeout
\* ends.  Nothing makes the subprocess take a step.
SupervisorRuns(t) ==
    \/ SupTracker(t)
    \/ SupMarkRunning(t)
    \/ SupPopen(t)
    \/ SupRegister(t)
    \/ SupReadLine(t)
    \/ SupReadEOF(t)
    \/ SupWaitReturns(t)
    \/ SupWaitTimeout(t)
    \/ SupResult(t)
    \/ HandleTimeout(t)
    \/ HandleTimeoutKill(t)
    \/ HandleNotFound(t)
    \/ HandleException(t)
    \/ FinallyCheck(t)
    \/ FinallyDel(t)
    \/ FinallyPoll(t)
    \/ FinallyWaitReturns(t)
    \/ FinallyKill(t)

FairRunSpec == RunSpec /\ WF_vars(SupervisorRuns("t1"))

-----------------------------------------------------------------------------
(* The dedup keys, as functions of the URL *)

\* _extract_links: the key tested against and added to urls_seen
seen_key(link) == md5(urldefrag(link))

\* parse: the key tested against and added to urls_crawled
crawled_key(url) == md5(url)

Urls == {Href(h, p, f, e) : h \in {"self", "other"}, p \in 0..1,
                            f \in {"", "a", "b"}, e \in {"", ".pdf"}}

HashInit ==
    /\ InitOn({"leaf"})
    /\ hashed \in {[u1 |-> a, u2 |-> b, seen |-> << >>, crawled |-> << >>] :
                      a \in Urls, b \in Urls}
    /\ downloaded = NoDownload
    /\ extracted = NoLinks
    /\ assets_found = NoAssets
    /\ relaunched = NoLaunch
    /\ piped = NoItem
    /\ written = NoWrites
    /\ frontier = NoFrontier
    /\ parsed = NoResponse
    /\ pooled = NoCalls
    /\ celery = NoTask
    /\ uploading = NoBatch
    /\ percent = NoReading

\* Both keys of both URLs are computed
Hash ==
    /\ hashed.seen = << >>
    /\ hashed' = [hashed EXCEPT
                     !.seen = << seen_key(hashed.u1), seen_key(hashed.u2) >>,
                     !.crawled = << crawled_key(hashed.u1), crawled_key(hashed.u2) >>]
    /\ UNCHANGED << runVars, percent, uploading, celery, pooled, parsed, frontier, written, piped, relaunched, assets_found, downloaded, extracted >>

HashSpec == HashInit /\ [][Hash]_vars

-----------------------------------------------------------------------------
(* download_and_upload, as a function of what the asset's server answers *)

MaxSize == 12

Assets == {Asset(st, cl, sz, f) : st \in {200, 404, 500}, cl \in -1..MaxSize,
                                  sz \in 0..MaxSize,
                                  f \in {"none", "timeout", "upload"}}

DownloadInit ==
    /\ InitOn({"leaf"})
    /\ hashed = NoHashes
    /\ downloaded \in {[asset |-> a, called |-> FALSE, result |-> None] : a \in Assets}
    /\ extracted = NoLinks
    /\ assets_found = NoAssets
    /\ relaunched = NoLaunch
    /\ piped = NoItem
    /\ written = NoWrites
    /\ frontier = NoFrontier
    /\ parsed = NoResponse
    /\ pooled = NoCalls
    /\ celery = NoTask
    /\ uploading = NoBatch
    /\ percent = NoReading

\* One call of download_and_upload
Download_and_upload ==
    /\ ~downloaded.called
    /\ downloaded' = [downloaded EXCEPT !.called = TRUE,
                                        !.result = download_and_upload(downloaded.asset)]
    /\ UNCHANGED << runVars, percent, uploading, celery, pooled, parsed, frontier, written, piped, relaunched, assets_found, hashed, extracted >>

DownloadSpec == DownloadInit /\ [][Download_and_upload]_vars

-----------------------------------------------------------------------------
(* _extract_links, as a function of the hrefs of a page and of urls_seen *)

MaxLinks == 33

\* A page with c cross-domain links before and one after k same-domain
\* links, a mailto link, a subdomain link and, with dup, the first link
\* once more with a fragment
PageOf(k, c, dup) ==
    [i \in 1..c |-> Href("other", i, "", "")]
    \o << Url("mailto", "", 0, "", "", ""), Href("sub.self", 1, "", "") >>
    \o [i \in 1..k |-> Href("self", i, "", "")]
    \o << Href("other", 0, "", "") >>
    \o (IF dup THEN << Href("self", 1, "x", "") >> ELSE << >>)

\* The forms of a link to the crawled host and to another
UrlForms == {Url(s, h, 1, e, q, f) : s \in {"https", "http", "ftp"},
                                    h \in {"self", "other"},
                                    e \in {"", ".html", ".pdf"},
                                    q \in {"", "v=1", "f=a.pdf"},
                                    f \in {"", "a"}}

Pages == {PageOf(k, c, dup) : k \in 0..MaxLinks, c \in 0..2, dup \in BOOLEAN}
             \cup {<< u >> : u \in UrlForms}

\* urls_seen when the page is parsed: up to two of its links were found on
\* other pages
SeenBefore == {{}, {md5(Href("self", 1, "", ""))},
               {md5(Href("self", 1, "", "")), md5(Href("self", 2, "", ""))}}

LinksInit ==
    /\ InitOn({"leaf"})
    /\ hashed = NoHashes
    /\ downloaded = NoDownload
    /\ extracted \in {[hrefs |-> h, before |-> b, seen |-> b, idx |-> 1,
                        yielded |-> << >>, done |-> FALSE] :
                          h \in Pages, b \in SeenBefore}
    /\ assets_found = NoAssets
    /\ relaunched = NoLaunch
    /\ piped = NoItem
    /\ written = NoWrites
    /\ frontier = NoFrontier
    /\ parsed = NoResponse
    /\ pooled = NoCalls
    /\ celery = NoTask
    /\ uploading = NoBatch
    /\ percent = NoReading

\* The generator _extract_links(response) is resumed: it runs to its next
\* yield or to its end
Extract_links ==
    LET link == NextLink(extracted.hrefs, extracted.idx, extracted.seen,
                         Len(extracted.yielded))
    IN  /\ ~extracted.done
        /\ extracted' =
              IF link.found
              THEN [extracted EXCEPT !.seen = Marked(@, link.url),
                                     !.idx = link.idx + 1,
                                     !.yielded = Append(@, link.url)]
              ELSE [extracted EXCEPT !.done = TRUE]
        /\ UNCHANGED << runVars, percent, uploading, celery, pooled, parsed, frontier, written, piped, relaunched, assets_found, hashed, downloaded >>

LinksSpec == LinksInit /\ [][Extract_links]_vars

-----------------------------------------------------------------------------
(* _extract_assets, as a function of the attributes found in the page *)

MaxImages == 12
MaxScripts == 9

\* n sources naming the resources from + 1 .. from + n, every second one
\* written as a relative URL; with repeat, every resource named twice over
Sources(n, from, repeat) ==
    [i \in 1..n |-> Src(from + (IF repeat THEN (i + 1) \div 2 ELSE i),
                        IF i % 2 = 0 THEN "relative" ELSE "absolute")]

\* The attributes of a page: n_img images after a data: URI, n_src scripts
\* after an empty src, and n_src stylesheets, which with shared are the
\* files of the images
AssetsInit ==
    /\ InitOn({"leaf"})
    /\ hashed = NoHashes
    /\ downloaded = NoDownload
    /\ extracted = NoLinks
    /\ assets_found \in
         {[images |-> << Src(0, "data:") >> \o Sources(n_img, 0, repeat),
           scripts |-> << Src(0, "") >> \o Sources(n_src, 100, repeat),
           stylesheets |-> Sources(n_src, IF shared THEN 0 ELSE 200, FALSE),
           called |-> FALSE, unique |-> << >>] :
             n_img \in 0..MaxImages, n_src \in 0..MaxScripts,
             repeat \in BOOLEAN, shared \in BOOLEAN}
    /\ relaunched = NoLaunch
    /\ piped = NoItem
    /\ written = NoWrites
    /\ frontier = NoFrontier
    /\ parsed = NoResponse
    /\ pooled = NoCalls
    /\ celery = NoTask
    /\ uploading = NoBatch
    /\ percent = NoReading

\* One call of _extract_assets
Extract_assets ==
    /\ ~assets_found.called
    /\ assets_found' =
          [assets_found EXCEPT !.called = TRUE,
                               !.unique = _extract_assets(assets_found.images,
                                                          assets_found.scripts,
                                                          assets_found.stylesheets)]
    /\ UNCHANGED << runVars, percent, uploading, celery, pooled, parsed, frontier, written, piped, relaunched, hashed, downloaded, extracted >>

AssetsSpec == AssetsInit /\ [][Extract_assets]_vars

-----------------------------------------------------------------------------
(* The start of run_crawl_task, on the stores a finished run left *)

MaxTotal == 2

\* The crawl_statistics rows a finished run leaves: the counts of its
\* spider, or none when the spider never started, a final status and the
\* times of the run, here "earlier"
RowsLeft ==
    {<< Statistics(pages, assets, << status >>, << "earlier" >>, << "earlier" >>) >> :
        pages \in {None} \cup {<< n >> : n \in 0..MaxTotal},
        assets \in {None} \cup {<< n >> : n \in 0..MaxTotal},
        status \in {"completed", "failed"}}

\* The progress key a finished run leaves: a page, or 100
ProgressLeft == {0, progress_increment, FullProgress * Scale}

RelaunchInit ==
    /\ InitOn({"leaf"})
    /\ hashed = NoHashes
    /\ downloaded = NoDownload
    /\ extracted = NoLinks
    /\ assets_found = NoAssets
    /\ relaunched \in {[crawl_statistics |-> rows, progress |-> progress,
                         total |-> DefaultTotal, step |-> "reset"] :
                           rows \in RowsLeft, progress \in ProgressLeft}
    /\ piped = NoItem
    /\ written = NoWrites
    /\ frontier = NoFrontier
    /\ parsed = NoResponse
    /\ pooled = NoCalls
    /\ celery = NoTask
    /\ uploading = NoBatch
    /\ percent = NoReading

\* run_crawl_task: tracker.reset() and tracker.set_total(100)
RelaunchReset ==
    /\ relaunched.step = "reset"
    /\ relaunched' = [relaunched EXCEPT !.progress = reset.progress,
                                        !.total = DefaultTotal,
                                        !.step = "mark"]
    /\ UNCHANGED << runVars, percent, uploading, celery, pooled, parsed, frontier, written, piped, hashed, downloaded, extracted, assets_found >>

\* run_crawl_task: update_crawl_statistics(domain, status='running',
\* start_time=datetime.now())
RelaunchMarkRunning ==
    /\ relaunched.step = "mark"
    /\ relaunched' =
          [relaunched EXCEPT
              !.crawl_statistics =
                  UpsertStatistics(@, Statistics(None, None, << "running" >>,
                                                 << "now" >>, None)),
              !.step = "running"]
    /\ UNCHANGED << runVars, percent, uploading, celery, pooled, parsed, frontier, written, piped, hashed, downloaded, extracted, assets_found >>

RelaunchNext == RelaunchReset \/ RelaunchMarkRunning

RelaunchSpec == RelaunchInit /\ [][RelaunchNext]_vars

-----------------------------------------------------------------------------
(* process_item, as a function of the item and of what the database does *)

Items == [metadata : BOOLEAN, assets : BOOLEAN, article : BOOLEAN]

PipeInit ==
    /\ InitOn({"leaf"})
    /\ hashed = NoHashes
    /\ downloaded = NoDownload
    /\ extracted = NoLinks
    /\ assets_found = NoAssets
    /\ relaunched = NoLaunch
    /\ piped \in {[item |-> i, outcome |-> o, called |-> FALSE, result |-> "none",
                      calls |-> << >>] :
                     i \in Items, o \in [DOMAIN NoItem.outcome -> DbOutcomes]}
    /\ written = NoWrites
    /\ frontier = NoFrontier
    /\ parsed = NoResponse
    /\ pooled = NoCalls
    /\ celery = NoTask
    /\ uploading = NoBatch
    /\ percent = NoReading

\* One call of process_item
Process_item ==
    /\ ~piped.called
    /\ piped' = [piped EXCEPT !.called = TRUE,
                              !.result = process_item(piped.item, piped.outcome),
                              !.calls = ProcessItemCalls(piped.item, piped.outcome)]
    /\ UNCHANGED << runVars, percent, uploading, celery, pooled, parsed, frontier, written, hashed, downloaded, extracted, assets_found,
                    relaunched >>

PipeSpec == PipeInit /\ [][Process_item]_vars

-----------------------------------------------------------------------------
(* The writes of DatabaseOperations, as functions of the stored rows *)

\* The database before any page, and after one page with a metadata entry,
\* an asset and an article, crawled by a finished run
Databases ==
    {NoRows,
     [crawled_pages |-> << [url |-> 1, title |-> "a"] >>,
      page_metadata |-> << [page_id |-> 1, meta_key |-> "k1", meta_value |-> "v"] >>,
      assets |-> << [page_id |-> 1, url |-> "a1"] >>,
      articles |-> << [page_id |-> 1, headline |-> "h", article_text |-> "t"] >>,
      crawl_statistics |-> << Statistics(<< 1 >>, << 1 >>, << "completed" >>,
                                         << "earlier" >>, << "earlier" >>) >>]}

\* A write to apply to a database
Started(db, call) ==
    written = [db |-> db, call |-> call, applied |-> "never", once |-> db]

WritesInit ==
    /\ InitOn({"leaf"})
    /\ hashed = NoHashes
    /\ downloaded = NoDownload
    /\ extracted = NoLinks
    /\ assets_found = NoAssets
    /\ relaunched = NoLaunch
    /\ piped = NoItem
    /\ frontier = NoFrontier
    /\ parsed = NoResponse
    /\ pooled = NoCalls
    /\ celery = NoTask
    /\ uploading = NoBatch
    /\ percent = NoReading
    /\ \E db \in Databases :
          \/ \E url \in 1..2, title \in {"a", "b"} :
                Started(db, [op |-> "insert_page", url |-> url, title |-> title])
          \/ \E page_id \in 1..2,
                metadata_dict \in {<< >>, << << "k1", "v" >> >>,
                                   << << "k1", "v" >>, << "k2", "v" >> >>} :
                Started(db, [op |-> "insert_metadata_batch", page_id |-> page_id,
                             metadata_dict |-> metadata_dict])
          \/ \E page_id \in 1..2, assets \in {<< >>, << "a1" >>, << "a1", "a2" >>} :
                Started(db, [op |-> "insert_asset_batch", page_id |-> page_id,
                             assets |-> assets])
          \/ \E page_id \in 1..2, headline \in {"", "h"}, article_text \in {"", "t"} :
                Started(db, [op |-> "insert_article", page_id |-> page_id,
                             headline |-> headline, article_text |-> article_text])
          \/ \E totals \in {None, << 2 >>},
                status \in {None, << "running" >>, << "failed" >>},
                start_time \in {None, << "now" >>}, end_time \in {None, << "now" >>} :
                Started(db, [op |-> "update_crawl_statistics",
                             statistics |-> Statistics(totals, totals, status,
                                                       start_time, end_time)])

\* The write is applied, with the same arguments, once more
Write ==
    /\ written.applied \in {"never", "once"}
    /\ written' = [written EXCEPT
                       !.db = Applied(@, written.call),
                       !.applied = IF @ = "never" THEN "once" ELSE "twice",
                       !.once = IF written.applied = "never"
                                THEN Applied(written.db, written.call) ELSE @]
    /\ UNCHANGED << runVars, percent, uploading, celery, pooled, parsed, frontier, hashed, downloaded, extracted, assets_found,
                    relaunched, piped >>

WritesSpec == WritesInit /\ [][Write]_vars

-----------------------------------------------------------------------------
(* A link found on a page: _extract_links and Scrapy's DepthMiddleware, as  *)
(* a function of the link, the depth of the page and urls_seen              *)

\* The links found: two pages of the crawled host, one of them also with a
\* fragment, a page of another host and a file
FrontierLinks == {Href("self", 1, "", ""), Href("self", 1, "a", ""),
                  Href("self", 2, "", ""), Href("other", 1, "", ""),
                  Href("self", 3, "", ".pdf")}

FrontierInit ==
    /\ InitOn({"leaf"})
    /\ hashed = NoHashes
    /\ parsed = NoResponse
    /\ pooled = NoCalls
    /\ celery = NoTask
    /\ uploading = NoBatch
    /\ percent = NoReading
    /\ downloaded = NoDownload
    /\ extracted = NoLinks
    /\ assets_found = NoAssets
    /\ relaunched = NoLaunch
    /\ piped = NoItem
    /\ written = NoWrites
    /\ frontier \in {[NoFrontier EXCEPT !.urls_seen = b, !.before = b] :
                         b \in SeenBefore}

\* parse of a page at a depth of 0 .. DEPTH_LIMIT resumes
\* _extract_links on a link of the page: the link is tested and marked, its
\* Request is yielded, and the DepthMiddleware lets the Request through to
\* the scheduler or drops it
Discover ==
    \E link \in FrontierLinks, depth \in 0..DEPTH_LIMIT :
        LET found == NextLink(<< link >>, 1, frontier.urls_seen, 0)
            requests == IF found.found
                        THEN Scheduled(<< found.url >>, depth + 1) ELSE {}
        IN  /\ frontier' =
                  [urls_seen |-> IF found.found
                                 THEN Marked(frontier.urls_seen, found.url)
                                 ELSE frontier.urls_seen,
                   scheduler |-> frontier.scheduler \cup requests,
                   before |-> frontier.urls_seen,
                   link |-> link, depth |-> depth, discovered |-> TRUE,
                   scheduled |-> requests # {}]
            /\ UNCHANGED << runVars, percent, uploading, celery, pooled, parsed, hashed, downloaded, extracted,
                            assets_found, relaunched, piped, written >>

FrontierSpec == FrontierInit /\ [][Discover]_vars

-----------------------------------------------------------------------------
(* parse and errback, as functions of the response and of what happens     *)
(* while the page is processed                                             *)

\* parse(response) to its end: the counters after it.  raises: a statement
\* of the try block raises an Exception (the pool of
\* upload_assets_concurrent cannot start a thread, say)
ParseCounters(response) ==
    IF ~response.text
    THEN [response EXCEPT !.pages_failed = @ + 1]
    ELSE IF response.status >= 400
    THEN [response EXCEPT !.pages_failed = @ + 1]
    ELSE IF response.crawled_before
    THEN response
    ELSE IF response.raises
    THEN [response EXCEPT !.pages_crawled = @ + 1, !.pages_failed = @ + 1,
                          !.crawled_before = TRUE]
    ELSE [response EXCEPT !.pages_crawled = @ + 1, !.crawled_before = TRUE]

\* errback(failure): the counters after it
ErrbackCounters(response) == [response EXCEPT !.pages_failed = @ + 1]

ParseInit ==
    /\ InitOn({"leaf"})
    /\ hashed = NoHashes
    /\ pooled = NoCalls
    /\ celery = NoTask
    /\ uploading = NoBatch
    /\ percent = NoReading
    /\ downloaded = NoDownload
    /\ extracted = NoLinks
    /\ assets_found = NoAssets
    /\ relaunched = NoLaunch
    /\ piped = NoItem
    /\ written = NoWrites
    /\ frontier = NoFrontier
    /\ parsed \in {[text |-> text, status |-> status,
                      crawled_before |-> crawled_before, raises |-> raises,
                      pages_crawled |-> crawled, pages_failed |-> failed,
                      before |-> crawled + failed, callback |-> "none"] :
                        text \in BOOLEAN, status \in {200, 301, 404, 500},
                        crawled_before \in BOOLEAN, raises \in BOOLEAN,
                        crawled \in 0..PageCeiling, failed \in 0..PageCeiling}

\* The response is delivered to parse
Parse ==
    /\ parsed.callback = "none"
    /\ parsed' = [ParseCounters(parsed) EXCEPT !.callback = "parse"]
    /\ UNCHANGED << runVars, percent, uploading, celery, pooled, hashed, downloaded, extracted, assets_found,
                    relaunched, piped, written, frontier >>

\* The download failed: errback is called
Errback ==
    /\ parsed.callback = "none"
    /\ parsed' = [ErrbackCounters(parsed) EXCEPT !.callback = "errback"]
    /\ UNCHANGED << runVars, percent, uploading, celery, pooled, hashed, downloaded, extracted, assets_found,
                    relaunched, piped, written, frontier >>

ParseNext == Parse \/ Errback

ParseSpec == ParseInit /\ [][ParseNext]_vars

-----------------------------------------------------------------------------
(* database.py, operations.py: the connection a method of                  *)
(* DatabaseOperations takes from the pool, as a function of what its       *)
(* statements do                                                           *)

DB_POOL_MAX_CONN == 10

\* Methods with an except handler that rolls back, and one without
Methods == {"insert_log", "update_crawl_statistics", "get_crawl_statistics"}

\* except Exception: ... if conn: conn.rollback()
RollsBack(method) == method # "get_crawl_statistics"

\* conn = None; try: conn = get_connection(); cursor = conn.cursor();
\* cursor.execute(...); conn.commit() / except Exception: rollback /
\* finally: if conn: cursor.close(); release_connection(conn).
\* The connections taken and released, and whether an exception leaves the
\* method.  When conn.cursor() raises, the name cursor is unbound in the
\* finally block: cursor.close() raises and release_connection is not
\* reached.
Connection(method, getconn, cursor, execute, rollback) ==
    IF getconn = "raises"
    THEN [taken |-> 0, released |-> 0, raised |-> FALSE]
    ELSE IF cursor = "raises"
    THEN [taken |-> 1, released |-> 0, raised |-> TRUE]
    ELSE IF execute = "raises"
    THEN [taken |-> 1, released |-> 1,
          raised |-> RollsBack(method) /\ rollback = "raises"]
    ELSE [taken |-> 1, released |-> 1, raised |-> FALSE]

\* SimpleConnectionPool.getconn: PoolError when maxconn connections are out
Getconn(checked_out) ==
    IF checked_out < DB_POOL_MAX_CONN THEN {"ok", "raises"} ELSE {"raises"}

PoolInit ==
    /\ InitOn({"leaf"})
    /\ hashed = NoHashes
    /\ downloaded = NoDownload
    /\ extracted = NoLinks
    /\ assets_found = NoAssets
    /\ relaunched = NoLaunch
    /\ piped = NoItem
    /\ written = NoWrites
    /\ frontier = NoFrontier
    /\ parsed = NoResponse
    /\ pooled = NoCalls
    /\ celery = NoTask
    /\ uploading = NoBatch
    /\ percent = NoReading

\* A method of DatabaseOperations is called and returns or raises
Call_method ==
    \E method \in Methods, getconn \in Getconn(pooled.checked_out),
       cursor \in {"ok", "raises"}, execute \in {"ok", "raises"},
       rollback \in {"ok", "raises"} :
        LET c == Connection(method, getconn, cursor, execute, rollback)
        IN  /\ pooled' = [checked_out |-> pooled.checked_out + c.taken - c.released,
                          method |-> method, getconn |-> getconn,
                          cursor |-> cursor, execute |-> execute,
                          rollback |-> rollback, taken |-> c.taken,
                          released |-> c.released, raised |-> c.raised]
            /\ UNCHANGED << runVars, percent, uploading, celery, hashed, downloaded, extracted,
                            assets_found, relaunched, piped, written,
                            frontier, parsed >>

PoolSpec == PoolInit /\ [][Call_method]_vars

-----------------------------------------------------------------------------
(* celery_app.py: crawl_task, as a function of crawl_info and of what the  *)
(* progress store, Popen, the output loop and process.wait do              *)

\* finally: if process and process.poll() is None: terminate, wait, kill.
\* The name process is bound by the Popen call of the try block and nowhere
\* else: without it the test raises UnboundLocalError, which replaces the
\* value the handler was returning.
CrawlTaskFinally(bound, status, process) ==
    IF ~bound THEN [result |-> "raised", process |-> "none"]
    ELSE [result |-> status,
          process |-> IF process = "running" THEN "terminated" ELSE process]

\* crawl_task(self, crawl_info): the status of the dict returned, or
\* "raised", and the subprocess at that moment
crawl_task(task) ==
    IF ~task.url \/ ~task.domain
    THEN [result |-> "failed", process |-> "none"]
    ELSE IF task.tracker = "raises"
    THEN CrawlTaskFinally(FALSE, "failed", "none")
    ELSE IF task.popen # "ok"
    THEN CrawlTaskFinally(FALSE, "failed", "none")
    ELSE IF task.read = "raises"
    THEN CrawlTaskFinally(TRUE, "failed", "running")
    ELSE IF task.wait = "timeout"
    THEN CrawlTaskFinally(TRUE, "failed", "killed")
    ELSE IF task.wait = "zero"
    THEN CrawlTaskFinally(TRUE, "completed", "exited")
    ELSE CrawlTaskFinally(TRUE, "failed", "exited")

CeleryInit ==
    /\ InitOn({"leaf"})
    /\ hashed = NoHashes
    /\ uploading = NoBatch
    /\ percent = NoReading
    /\ downloaded = NoDownload
    /\ extracted = NoLinks
    /\ assets_found = NoAssets
    /\ relaunched = NoLaunch
    /\ piped = NoItem
    /\ written = NoWrites
    /\ frontier = NoFrontier
    /\ parsed = NoResponse
    /\ pooled = NoCalls
    /\ celery \in {[NoTask EXCEPT !.url = url, !.domain = dom,
                                  !.tracker = tracker, !.popen = popen,
                                  !.read = read, !.wait = wait] :
                        url \in BOOLEAN, dom \in BOOLEAN,
                        tracker \in {"ok", "raises"},
                        popen \in {"ok", "not_found", "raises"},
                        read \in {"ok", "raises"},
                        wait \in {"zero", "nonzero", "timeout"}}

\* The worker runs the task
Crawl_task ==
    /\ ~celery.called
    /\ celery' = [celery EXCEPT !.called = TRUE,
                                !.result = crawl_task(celery).result,
                                !.process = crawl_task(celery).process]
    /\ UNCHANGED << runVars, percent, uploading, hashed, downloaded, extracted, assets_found,
                    relaunched, piped, written, frontier, parsed, pooled >>

CelerySpec == CeleryInit /\ [][Crawl_task]_vars

-----------------------------------------------------------------------------
(* upload_assets_concurrent, as a function of the assets of a page and of  *)
(* the order in which the futures complete                                 *)

MaxAssets == 3

\* The dict _extract_assets makes of an asset URL
AssetDict(type, url) ==
    [type |-> type, url |-> url, cloud_url |-> None, file_size |-> None]

\* What the server of each asset URL answers
Served == << AssetOk, AssetNon200, AssetOversize, AssetException, AssetTimeout >>

\* Lists of up to MaxAssets assets with distinct URLs, as _extract_assets
\* returns them
AssetLists ==
    {l \in UNION {[1..n -> {AssetDict(IF u <= 2 THEN "image" ELSE "js", u) :
                                 u \in DOMAIN Served}] : n \in 0..MaxAssets} :
        \A i, j \in DOMAIN l : l[i].url = l[j].url => i = j}

\* A loop that keeps the assets that were uploaded and drops the others
CollectUploaded(uploaded_assets, asset, result) ==
    IF result # None
    THEN Append(uploaded_assets, [asset EXCEPT !.cloud_url = << result[1] >>,
                                               !.file_size = << result[2] >>])
    ELSE uploaded_assets

\* The body of the loop over as_completed: if result: asset['cloud_url'] =
\* ...; asset['file_size'] = ...  and, in either case,
\* uploaded_assets.append(asset)
Collect(uploaded_assets, asset, result) ==
    Append(uploaded_assets,
           IF result # None
           THEN [asset EXCEPT !.cloud_url = << result[1] >>,
                              !.file_size = << result[2] >>]
           ELSE asset)

UploadInit ==
    /\ InitOn({"leaf"})
    /\ hashed = NoHashes
    /\ percent = NoReading
    /\ downloaded = NoDownload
    /\ extracted = NoLinks
    /\ assets_found = NoAssets
    /\ relaunched = NoLaunch
    /\ piped = NoItem
    /\ written = NoWrites
    /\ frontier = NoFrontier
    /\ parsed = NoResponse
    /\ pooled = NoCalls
    /\ celery = NoTask
    /\ uploading \in {[NoBatch EXCEPT !.assets_list = l] : l \in AssetLists}

\* upload_assets_concurrent(assets_list) is called: it returns the list at
\* once when there is nothing to upload, and submits a future per asset
\* otherwise
Submit ==
    /\ ~uploading.submitted
    /\ uploading' =
          IF Uploads(uploading.assets_list)
          THEN [uploading EXCEPT !.submitted = TRUE,
                                 !.pending = DOMAIN uploading.assets_list]
          ELSE [uploading EXCEPT !.submitted = TRUE, !.returned = TRUE,
                                 !.uploaded_assets = uploading.assets_list]
    /\ UNCHANGED << runVars, percent, hashed, downloaded, extracted, assets_found,
                    relaunched, piped, written, frontier, parsed, pooled,
                    celery >>

\* as_completed yields the next future that is done, whichever it is; after
\* the last one the list collected is returned
As_completed ==
    \E i \in uploading.pending :
        LET asset == uploading.assets_list[i]
            result == download_and_upload(Served[asset.url])
        IN  /\ uploading' =
                  [uploading EXCEPT
                       !.pending = @ \ {i},
                       !.uploaded_assets = Collect(@, asset, result),
                       !.returned = uploading.pending = {i}]
            /\ UNCHANGED << runVars, percent, hashed, downloaded, extracted,
                            assets_found, relaunched, piped, written,
                            frontier, parsed, pooled, celery >>

UploadNext == Submit \/ As_completed

UploadSpec == UploadInit /\ [][UploadNext]_vars

-----------------------------------------------------------------------------
(* get_percentage, as a function of the two keys of the domain *)

MaxNumerator == 8
MaxDenominator == 7

PercentInit ==
    /\ InitOn({"leaf"})
    /\ hashed = NoHashes
    /\ downloaded = NoDownload
    /\ extracted = NoLinks
    /\ assets_found = NoAssets
    /\ relaunched = NoLaunch
    /\ piped = NoItem
    /\ written = NoWrites
    /\ frontier = NoFrontier
    /\ parsed = NoResponse
    /\ pooled = NoCalls
    /\ celery = NoTask
    /\ uploading = NoBatch
    /\ percent \in {[NoReading EXCEPT !.progress = progress, !.total = total,
                                      !.reachable = reachable] :
                         progress \in -1..(MaxNumerator * Scale),
                         total \in -1..MaxDenominator \cup {DefaultTotal},
                         reachable \in BOOLEAN}

\* ProgressTracker.get_percentage()
Get_percentage ==
    /\ ~percent.called
    /\ percent' =
          [percent EXCEPT
               !.called = TRUE,
               !.percentage = get_percentage(redis_get(percent.progress, percent.reachable),
                                             redis_get(percent.total, percent.reachable))]
    /\ UNCHANGED << runVars, hashed, downloaded, extracted, assets_found,
                    relaunched, piped, written, frontier, parsed, pooled,
                    celery, uploading >>

PercentSpec == PercentInit /\ [][Get_percentage]_vars

-----------------------------------------------------------------------------
(* Claims *)

\* C1: in a run no fingerprint is requested twice: for every URL, the seed
\* included, at most one Request is yielded to the scheduler.
C1_OneRequestPerFingerprint ==
    \A t \in Tasks : \A h \in DOMAIN reqCount[t] : reqCount[t][h] <= 1

\* C2: a run with page-count ceiling C accepts at most C frontier entries:
\* the URLs requested (the seed and those added to urls_seen) number at
\* most C.
C2_AcceptedWithinCeiling ==
    \A t \in Tasks :
        Cardinality(DOMAIN reqCount[t]) <= PageCeiling

\* A run is between its start (its own reset done) and its terminal state
InRun(t) == pc[t] \notin {"idle", "s_tracker", "done", "raised"}

\* C3: get_percentage() of the domain is always in [0, 100] and never
\* decreases between the start of a run and its terminal state, whatever
\* page completions and launch requests interleave.
C3_PercentageMonotone ==
    /\ [](Percentage >= 0 /\ Percentage <= 100 * 100)
    /\ [][(\E t \in Tasks : InRun(t) /\ InRun(t)') => (Percentage' >= Percentage)]_vars

\* The run of thread t1 is over: run_crawl_task returned, no subprocess left
RunOver == Returned("t1") /\ ~Alive("t1")

\* C4: the persisted status is 'completed' only if the subprocess exited
\* with code 0 and at least one page was crawled.
C4_CompletedOnlyIfExitZeroAndPage ==
    (RunOver /\ db_status = "completed") =>
        (returncode["t1"] = 0 /\ pages_crawled["t1"] >= 1)

\* C5: a run whose seed page has no crawlable link ends 'completed' if the
\* seed fetch succeeded and 'failed' if it failed.
C5_LeafRunStatus ==
    (site = "leaf" /\ RunOver /\ exit_path["t1"] = "returned" /\ returncode["t1"] = 0) =>
        db_status = (IF pages_crawled["t1"] >= 1 THEN "completed" ELSE "failed")

\* C6: completed and failed are terminal: once the persisted status of the
\* run is one of them, no write of the run changes it.
C6_TerminalStatusStays ==
    [][(db_status \in {"completed", "failed"}) => (db_status' = db_status)]_vars

\* C7: on every exit path the end time is persisted exactly once: exactly
\* one update_crawl_statistics call of the run carries an end_time.
C7_EndTimeWrittenOnce ==
    RunOver => endWrites["t1"] = 1

\* C8: a subprocess still running when the supervisor's timeout elapses is
\* stopped by run_crawl_task, whether or not it holds its output stream
\* open: no subprocess stays running for ever.
C8_TimeoutStopsSubprocess ==
    \A t \in Tasks : Alive(t) ~> ~Alive(t)

\* C9: on every exit path of run_crawl_task the subprocess it spawned is no
\* longer running when the function is left.
C9_NoSubprocessLeftRunning ==
    \A t \in Tasks : Returned(t) => ~Alive(t)

\* C10: once run_crawl_task has returned, on whatever path, active_crawls
\* holds no entry of that run.
C10_RegistryEntryRemoved ==
    \A t \in Tasks : Returned(t) => active_crawls # t

\* C10: two runs registered their subprocesses; one returned after an
\* exception and a terminated subprocess, the other returned normally
C10_Witness ==
    \E t, u \in Tasks :
        /\ pc[t] = "done" /\ exit_path[t] = "exception" /\ returncode[t] = -15
        /\ pc[u] = "done" /\ exit_path[u] = "returned" /\ returncode[u] = 0
        /\ active_crawls = "none"

\* C11: whenever run_crawl_task found a non-zero return code, could not
\* launch the spider, or caught an exception, the status it wrote is
\* 'failed' and it appended an ERROR entry to the log.
C11_SupervisorMarksFailed ==
    \A t \in Tasks :
        (\/ exit_path[t] = "returned" /\ returncode[t] # 0
         \/ exit_path[t] \in {"not_found", "exception"})
        => (sup_status[t] = "failed" /\ error_logs[t] >= 1)

\* C11: a run whose subprocess exited with a non-zero code has returned
C11_Witness ==
    /\ pc["t1"] = "done" /\ exit_path["t1"] = "returned"
    /\ returncode["t1"] = 1
    /\ sup_status["t1"] = "failed" /\ error_logs["t1"] = 1

\* C12: reset() of the progress counter is called exactly once per run,
\* before the subprocess begins: a run that has a subprocess has had one
\* reset.
C12_ResetOncePerRun ==
    \A t \in Tasks : proc[t] # "none" => resets[t] = 1

\* C13: reading an output line, whatever its markers, changes neither the
\* persisted status nor the status the supervisor wrote; after a return or
\* a timeout the status the supervisor wrote follows from the return code
\* or the timeout alone.
C13_LinesOnlyLogged ==
    /\ [][\A t \in Tasks :
            (output_lines'[t] # output_lines[t])
            => (db_status' = db_status /\ sup_status'[t] = sup_status[t])]_vars
    /\ [](\A t \in Tasks :
            /\ exit_path[t] = "returned"
               => sup_status[t] = (IF returncode[t] = 0 THEN "completed" ELSE "failed")
            /\ exit_path[t] = "timeout" => sup_status[t] = "failed")

\* C13: the supervisor read an ERROR line and a CLOSED line of a subprocess
\* that exited with code 0, and wrote 'completed'
C13_Witness ==
    /\ pc["t1"] = "done" /\ exit_path["t1"] = "returned"
    /\ returncode["t1"] = 0 /\ sup_status["t1"] = "completed"
    /\ output_lines["t1"] = << "ERROR", "CLOSED" >>

\* The results download_and_upload has returned for the page whose assets
\* are being uploaded
InBatch(t) ==
    IF pool[t].active
    THEN Cardinality({a \in Finished(pool[t]) :
             download_and_upload(page_assets[pool[t].page][a]) # None})
    ELSE 0

Processed(t, p) ==
    /\ md5(Href(domain, p, "", "")) \in urls_crawled[t]
    /\ ~(pool[t].active /\ pool[t].page = p)
    /\ \A gen \in gens[t] : gen.page # p

\* Every link of the page that passes the filters was marked seen
LinksFollowed(t, p) ==
    \A i \in DOMAIN links[p] :
        LET absolute_url == urldefrag(links[p][i])
        IN  (absolute_url.host = domain /\ absolute_url.ext \notin skip_ext)
            => md5(absolute_url) \in urls_seen[t]

SameButFragment(u1, u2) ==
    u1.host = u2.host /\ u1.path = u2.path /\ u1.ext = u2.ext

\* C17: two URLs that differ only in their fragment have the same dedup
\* key, both in _extract_links (urls_seen) and in parse (urls_crawled).
C17_FragmentInsensitiveKeys ==
    (hashed.seen # << >> /\ SameButFragment(hashed.u1, hashed.u2))
    => (hashed.seen[1] = hashed.seen[2] /\ hashed.crawled[1] = hashed.crawled[2])

\* The Requests _extract_links yielded for a fingerprint: all but the one
\* of start_requests
LinkRequests(t, h) == reqCount[t][h] - (IF h = md5(start_url) THEN 1 ELSE 0)

\* C18: whatever pages discover a link and however their generators
\* interleave, _extract_links yields at most one Request per fingerprint,
\* and the fingerprint is in urls_seen when the Request is yielded.
C18_OneDiscovererYields ==
    \A t \in Tasks : \A h \in DOMAIN reqCount[t] :
        /\ LinkRequests(t, h) <= 1
        /\ LinkRequests(t, h) = 1 => h \in urls_seen[t]

\* C18: the seed page and a page it links to both link to a third page;
\* their generators ran interleaved, the page found it first (depth 2), and
\* both have ended
C18_Witness ==
    /\ site = "wide" /\ Processed("t1", 0) /\ Processed("t1", 1)
    /\ Request(Href(domain, 2, "", ""), 2) \in queue["t1"]
    /\ reqCount["t1"][md5(Href(domain, 2, "", ""))] = 1

\* A step of page discovery: a download, a response handled, a generator
\* resumed
PageStep(t) ==
    \/ \E r \in inflight[t] : retry(t, r) \/ parse(t, r) \/ parse_rejected(t, r)
                              \/ errback(t, r)
    \/ \E gen \in gens[t] : follow(t, gen)

\* C19: while the assets of a page are uploaded, the crawler can handle the
\* responses that have arrived and resume the pages being processed.
C19_UploadsDoNotBlockPages ==
    \A t \in Tasks :
        (proc[t] = "running" /\ pool[t].active
         /\ (inflight[t] # {} \/ gens[t] # {}))
        => ENABLED PageStep(t)

\* C20: at most 5 download_and_upload calls of a run are in progress at
\* once.
C20_AtMostFiveUploads ==
    \A t \in Tasks : Cardinality(pool[t].running) <= 5

\* C20: five uploads of a page are in progress and a sixth asset waits
C20_Witness ==
    /\ Cardinality(pool["t1"].running) = 5
    /\ pool["t1"].next <= Len(page_assets[pool["t1"].page])

\* C21: an asset whose download does not answer 200, or whose body is
\* larger than 10 MB, is abandoned: download_and_upload returns nothing for
\* it, so nothing of it is uploaded, with or without a content-length.
C21_OversizeNeverUploaded ==
    (downloaded.called /\ downloaded.result # None)
    => (downloaded.asset.status = 200 /\ downloaded.asset.size <= MaxContentLength)

\* C22: a response delivered as a failure (status >= 400, a non-text body,
\* a failed download) adds exactly 1 to pages_failed and is not processed:
\* pages_crawled, the items, the uploads, the links followed and the
\* progress counter stay as they are.
C22_RejectedNotProcessed ==
    [][\A t \in Tasks :
        (fetches'[t].failed = fetches[t].failed + 1)
        => (/\ pages_failed'[t] = pages_failed[t] + 1
            /\ UNCHANGED << pages_crawled, urls_crawled, items, assetVars, gens,
                            queue, reqCount, urls_seen, redis_progress >>)]_vars

\* C22, witness: after one page was processed, a response was rejected by
\* parse (errback logs an error, parse does not)
C22_Witness ==
    /\ fetches["t1"].failed = 1 /\ pages_failed["t1"] = 1
    /\ pages_crawled["t1"] = 1 /\ items["t1"] = 1
    /\ \A i \in DOMAIN stdout["t1"] : stdout["t1"][i] # "ERROR"
    /\ \A i \in DOMAIN output_lines["t1"] : output_lines["t1"][i] # "ERROR"

\* The distinct links of the page to the crawled host that were not seen
\* before and that the other filters (skipped schemes, file extension) let
\* through
Unseen ==
    {urldefrag(extracted.hrefs[i]) : i \in
        {j \in DOMAIN extracted.hrefs :
            /\ ~Skipped(extracted.hrefs[j])
            /\ extracted.hrefs[j].host = domain
            /\ ~EndsWith(extracted.hrefs[j], skip_ext)
            /\ md5(urldefrag(extracted.hrefs[j])) \notin extracted.before}}

C24_SchemeAndExtensionFiltered ==
    \A i \in DOMAIN extracted.yielded :
        /\ extracted.yielded[i].scheme \in {"http", "https"}
        /\ extracted.yielded[i].ext \notin skip_ext

\* The assets of a type in the list _extract_assets returned
OfType(type) ==
    {i \in DOMAIN assets_found.unique : assets_found.unique[i].type = type}

\* C25: the asset list of a page has at most 10 images, at most 8 scripts
\* and at most 8 stylesheets, and no two of its entries have the same
\* absolute URL.
C25_AssetsCappedAndUnique ==
    /\ Cardinality(OfType("image")) <= MaxImagesPerPage
    /\ Cardinality(OfType("js")) <= MaxScriptsPerPage
    /\ Cardinality(OfType("css")) <= MaxStylesheetsPerPage
    /\ \A i, j \in DOMAIN assets_found.unique :
          assets_found.unique[i].url = assets_found.unique[j].url => i = j

\* C25, witness: of a page with 12 images, 9 scripts and 9 stylesheets
\* that are files of the images, the list has 9 images (the data: URI is
\* one of the first ten), 7 scripts and no stylesheet
C25_Witness ==
    /\ assets_found.called
    /\ Len(assets_found.images) > MaxImages
    /\ Len(assets_found.scripts) > MaxScripts
    /\ Len(assets_found.stylesheets) = MaxScripts
    /\ Cardinality(OfType("image")) = MaxImagesPerPage - 1
    /\ Cardinality(OfType("js")) = MaxScriptsPerPage - 1
    /\ Cardinality(OfType("css")) = 0

DerivedPercentage(crawled) ==
    Min(RoundHundredths(100 * crawled, Max(PageCeiling, 1)), 100 * 100)

\* C27: in every state of a run, but while parse is between counting a
\* page and incrementing the progress, get_percentage() is the percentage
\* derived from pages_crawled and the page ceiling.
C27_PercentageDerivedFromCounters ==
    sp_pc["t1"] # "uploading" => Percentage = DerivedPercentage(pages_crawled["t1"])

\* C28: once a run launched after a finished run of the domain is marked
\* running, nothing of the earlier run is left in the state of the domain:
\* its total_pages, total_assets and end_time are gone from the
\* crawl_statistics row and the progress counter is 0.
C28_NothingLeftOfEarlierRun ==
    relaunched.step = "running" =>
        /\ relaunched.crawl_statistics[1].status = << "running" >>
        /\ relaunched.crawl_statistics[1].start_time = << "now" >>
        /\ relaunched.crawl_statistics[1].total_pages = None
        /\ relaunched.crawl_statistics[1].total_assets = None
        /\ relaunched.crawl_statistics[1].end_time = None
        /\ relaunched.progress = 0

\* C29: whatever persistence call fails, and however, process_item does
\* not raise: it returns the item.
C29_ProcessItemReturnsItem ==
    piped.called => piped.result = "item"

\* C30: a write of DatabaseOperations applied twice with the same
\* arguments leaves the rows that it leaves applied once.
C30_WritesIdempotent ==
    written.applied = "twice" => written.db = written.once

\* C31: parse produces at most one item per response URL and counts the
\* URL at most once in pages_crawled: the pages counted are the distinct
\* URLs crawled, the items are no more than that, and a response whose
\* URL was crawled before (a second Request delivered it) changes neither
\* pages_crawled nor the items nor the generators.
C31_OneItemPerResponseUrl ==
    /\ [](\A t \in Tasks :
            /\ pages_crawled[t] = Cardinality(urls_crawled[t])
            /\ items[t] <= pages_crawled[t])
    /\ [][\A t \in Tasks : \A r \in inflight[t] :
            (r \notin inflight'[t] /\ md5(r.url) \in urls_crawled[t])
            => /\ pages_crawled'[t] = pages_crawled[t]
               /\ items'[t] = items[t]
               /\ gens'[t] = gens[t]]_vars

\* C31, witness: the seed links to itself with a fragment; its URL was
\* requested twice, both responses were delivered to parse, and one page
\* was counted and one item emitted
C31_Witness ==
    /\ site = "loop" /\ fetches["t1"].ok = 2 /\ responses["t1"] = 2
    /\ pages_crawled["t1"] = 1 /\ items["t1"] = 1
    /\ urls_crawled["t1"] = {md5(start_url)}
    /\ Yielded(reqCount["t1"], start_url)[md5(start_url)] = 3

\* C32: a discovered link for which no Request reaches the scheduler
\* (another host, a skipped extension, seen before, or deeper than
\* DEPTH_LIMIT) leaves urls_seen as it was.
C32_RejectedLinkLeavesSeen ==
    (frontier.discovered /\ ~frontier.scheduled)
        => frontier.urls_seen = frontier.before

\* C33: handling one response, in parse or in errback, adds at most 1 to
\* pages_crawled + pages_failed, whatever happens while the page is
\* processed.
C33_ResponseCountedOnce ==
    parsed.callback # "none"
        => parsed.pages_crawled + parsed.pages_failed <= parsed.before + 1

\* The run has registered its subprocess and has not yet reached the
\* del of its own finally block
Registered(t) ==
    pc[t] \in {"s_read", "s_wait", "s_result", "h_timeout", "h_kill",
               "h_exception", "f_check", "f_del"}

\* C34: with overlapping launches, whenever the subprocess of a run is
\* alive after the run registered it (and before the run's own cleanup),
\* active_crawls holds that subprocess for the domain: no other run
\* replaces or removes the entry.
C34_RegistryHoldsLiveRun ==
    \A t \in Tasks : (Alive(t) /\ Registered(t)) => active_crawls = t

\* C35: a method of DatabaseOperations returns the connection it took to
\* the pool, once, on every path (success, failure of the statement,
\* failure to create the cursor): after any sequence of calls no
\* connection is checked out.
C35_ConnectionsReturned ==
    /\ pooled.released = pooled.taken
    /\ pooled.checked_out = 0

\* C36: crawl_task always ends by returning a dict whose status is
\* 'completed' or 'failed': no exception leaves it, whether url or domain
\* is missing, the progress store cannot be reached, the launch fails, the
\* wait times out or the exit code is not zero; and it leaves no
\* subprocess running.
C36_CrawlTaskReturnsStatus ==
    celery.called => /\ celery.result \in {"completed", "failed"}
                     /\ celery.process # "running"

\* C37: process_item calls insert_metadata_batch, insert_asset_batch and
\* insert_article only after insert_page has returned a page id; when
\* insert_page returns no id, none of them is called and the item is
\* returned.
C37_ChildRowsAfterPage ==
    piped.called =>
        /\ \A i \in DOMAIN piped.calls :
               piped.calls[i] # "insert_page"
               => /\ i > 1 /\ piped.calls[1] = "insert_page"
                  /\ Called(piped.outcome["insert_page"]) = "done"
        /\ Called(piped.outcome["insert_page"]) = "failed"
               => piped.calls = << "insert_page" >> /\ piped.result = "item"

\* C37, witness: the page of an item with metadata, assets and an article
\* was inserted and the three child writes were called after it
C37_Witness ==
    /\ piped.called /\ piped.outcome["insert_page"] = "ok"
    /\ piped.calls = << "insert_page", "insert_metadata_batch",
                        "insert_asset_batch", "insert_article" >>
    /\ piped.result = "item"

\* C38: upload_assets_concurrent returns the assets it was given, each
\* once, in any order: an asset whose upload succeeded has its cloud_url
\* and file_size set, any other is returned with both still null, and the
\* type and the url of every asset are as given.
C38_AssetsReturnedOnce ==
    uploading.returned =>
        /\ Len(uploading.uploaded_assets) = Len(uploading.assets_list)
        /\ \A i \in DOMAIN uploading.assets_list :
               LET asset == uploading.assets_list[i]
                   result == download_and_upload(Served[asset.url])
               IN  \E j \in DOMAIN uploading.uploaded_assets :
                       uploading.uploaded_assets[j] =
                           [type |-> asset.type, url |-> asset.url,
                            cloud_url |-> IF result # None
                                          THEN << result[1] >> ELSE None,
                            file_size |-> IF result # None
                                          THEN << result[2] >> ELSE None]

\* C38, witness: three assets were returned, the last one given first; one
\* was uploaded, one was answered 404 and one timed out
C38_Witness ==
    /\ uploading.returned /\ Len(uploading.assets_list) = 3
    /\ uploading.assets_list[1].url = 2 /\ uploading.assets_list[2].url = 1
    /\ uploading.assets_list[3].url = 5
    /\ uploading.uploaded_assets[1] = AssetDict("js", 5)
    /\ uploading.uploaded_assets[2] =
           [AssetDict("image", 1) EXCEPT !.cloud_url = << "secure_url" >>,
                                         !.file_size = << 1 >>]
    /\ uploading.uploaded_assets[3] = AssetDict("image", 2)

\* C39: when the status stored for a run is 'completed', the percentage
\* reported for its domain is 100; here for a run that has ended, its
\* subprocess having exited by itself and run_crawl_task having returned
\* without a timeout or an exception.
C39_CompletedShowsFullProgress ==
    (Returned("t1") /\ exit_path["t1"] = "returned" /\ db_status = "completed")
        => Percentage = FullProgress * 100

\* C40: for a progress n >= 0 and a total d > 0, get_percentage() is
\* min(100, 100 * n / d) rounded to 2 decimals: 100 when n >= d, and
\* otherwise within half a hundredth of 100 * n / d; it is 0 when the total
\* is 0 and when the store cannot be read.  (In hundredths of a percent;
\* the progress is stored in units of 1 / Scale.)
C40_PercentageFormula ==
    percent.called =>
        IF ~percent.reachable \/ percent.total = 0
        THEN percent.percentage = 0
        ELSE (percent.progress >= 0 /\ percent.total > 0) =>
               LET n == percent.progress
                   d == percent.total * Scale
               IN  IF n >= d THEN percent.percentage = 100 * 100
                   ELSE /\ 2 * (percent.percentage * d - 100 * 100 * n) <= d
                        /\ 2 * (100 * 100 * n - percent.percentage * d) <= d

\* C40, witness: progress 2 of a total of 3 is reported as 66.67
C40_Witness ==
    /\ percent.called /\ percent.reachable
    /\ percent.progress = 2 * Scale /\ percent.total = 3
    /\ percent.percentage = 6667

====
